---- MODULE Spec2Model ----
(***************************************************************************)
(* A model of the CBiRRT motion planner (package armplanning):             *)
(* rrtBackgroundRunner with its tryExtend closure, the nearest-neighbour   *)
(* and constrainedExtend goroutines, constrainNear, and the plan receiver. *)
(* Configurations are the points of a small integer grid; the external     *)
(* collaborators (constraint handler, IK solver, frame system, sampler)    *)
(* are modelled at their interface.                                        *)
(***************************************************************************)
EXTENDS Integers, Sequences, FiniteSets, TLC

(***************************************************************************)
(* Bounds of the model.                                                    *)
(***************************************************************************)
\* the grid of configurations is GridW x GridH, one DOF per axis
GridW == 3
GridH == 3
\* the largest PlanIter option explored
MaxPlanIter == 2

(***************************************************************************)
(* Program constants and options.                                          *)
(***************************************************************************)
maxNearIter == 20
maxExtendIter == 5000
\* mp.planOpts.InputIdentDist, in units of the squared grid distance
InputIdentDist == 1
\* mp.planOpts.Resolution: one sample per grid step
Resolution == 1
\* one entry of mp.algOpts.qstep (the same step for every DOF)
qstepUnit == 1
\* the frames of the step table, and the number of entries of a step slice
QFrames == {"arm"}
QDoF == 2
\* a reference to a step slice: <<0, f>> is the slice the constructor made
\* for frame f, <<k, f>> the slice call k of constrainedExtend made for it
SliceRefs == (0 .. 3) \X QFrames
\* no slice at a reference
NoSlice == <<>>
\* a step slice with every entry equal to step
StepSlice(step) == [i \in 1 .. QDoF |-> step]

Nil == 0 - 1
NoNode == <<"none", 0>>

Abs(x) == IF x < 0 THEN 0 - x ELSE x
Max(a, b) == IF a >= b THEN a ELSE b
Min(a, b) == IF a <= b THEN a ELSE b
Sign(x) == IF x > 0 THEN 1 ELSE IF x < 0 THEN 0 - 1 ELSE 0

(***************************************************************************)
(* Configurations: the grid point (x, y) is the integer y * GridW + x.     *)
(***************************************************************************)
Configs == 0 .. (GridW * GridH - 1)
Cfg(x, y) == y * GridW + x
CX(c) == c % GridW
CY(c) == c \div GridW

\* mp.configurationDistanceFunc: the squared norm of the difference
configurationDistanceFunc(a, b) ==
    (CX(a) - CX(b)) * (CX(a) - CX(b)) + (CY(a) - CY(b)) * (CY(a) - CY(b))

\* a variant with a threshold that no distance is below
IdentDistBelow == InputIdentDist - InputIdentDist

\* math.Pow(mp.planOpts.InputIdentDist, 3)
IdentDistCubed == InputIdentDist * InputIdentDist * InputIdentDist

\* a + (b - a) * num / den on one axis, rounded to the nearest grid value
InterpAxis(a, b, num, den) == a + ((2 * (b - a) * num + den) \div (2 * den))

\* referenceframe.InterpolateFS(fs, a, b, num/den)
InterpolateFS(a, b, num, den) ==
    Cfg(InterpAxis(CX(a), CX(b), num, den), InterpAxis(CY(a), CY(b), num, den))

\* fixedStepInterpolation: every DOF moves toward target by at most its step
fixedStepInterpolation(near, target, step) ==
    Cfg(CX(near) + Sign(CX(target) - CX(near)) * Min(Abs(CX(target) - CX(near)), step),
        CY(near) + Sign(CY(target) - CY(near)) * Min(Abs(CY(target) - CY(near)), step))

(***************************************************************************)
(* The worlds explored: the blocked configurations, the roots of the two   *)
(* trees as initRRTSolutions leaves them, the goal node (optNode), and the *)
(* configurations the IK solver may answer with.  No world has two valid   *)
(* answers, so an extend toward a target it cannot reach does not go back  *)
(* and forth between them.                                                 *)
(***************************************************************************)
Worlds ==
    { [blocked |-> {Cfg(1, 0), Cfg(2, 2)}, starts |-> <<Cfg(0, 0)>>,
       goals |-> <<Cfg(2, 0)>>, solutions |-> {Cfg(2, 2), Cfg(2, 0)}],
      [blocked |-> {}, starts |-> <<Cfg(0, 0)>>, goals |-> <<Cfg(2, 2)>>,
       solutions |-> {Cfg(2, 0)}],
      [blocked |-> {Cfg(1, 1)}, starts |-> <<Cfg(0, 0), Cfg(0, 2)>>,
       goals |-> <<Cfg(2, 1)>>, solutions |-> {Cfg(2, 2)}] }

\* the configurations the sampler may emit
SampleOutputs == {Cfg(1, 1), Cfg(1, 0)}

VARIABLES
    blocked,      \* the configurations that violate a state constraint
    roots,        \* the number of roots initRRTSolutions gave each tree
    initMaps,     \* what initRRTSolutions hands to plan: "maps", "err" or "steps"
    env,          \* "free": solver and sampler are arbitrary, the context can be
                  \* cancelled; "det": fixed functions, a context without cancellation
    planOptsNil,  \* mp.planOpts == nil
    PlanIter,     \* mp.planOpts.PlanIter
    ctxDone,      \* the caller's context is done
    tree,         \* tree["start"] = rrt.maps.startMap, tree["goal"] = rrt.maps.goalMap
    rpc,          \* position of rrtBackgroundRunner
    iter,         \* its loop variable i
    second,       \* inside the second tryExtend of the iteration
    target,       \* its variable target
    map1, map2,   \* its variables map1, map2 (names of trees)
    nearest,      \* nearest1, nearest2 of tryExtend
    reached,      \* map1reached, map2reached
    nn,           \* the two nearest-neighbour goroutines
    ext,          \* the two constrainedExtend goroutines
    mchan,        \* m1chan, m2chan
    mclosed,      \* m1chan, m2chan closed
    solutionChan, \* rrt.solutionChan
    solClosed,    \* solutionChan closed
    sent,         \* number of sends on solutionChan so far
    randCount,    \* draws taken from mp.randseed
    ppc,          \* position of plan
    solution,     \* its variable solution: what it received
    innerErr,     \* the last error raised inside constrainNear
    algQstep,     \* mp.algOpts.qstep: the step slice of every frame, by reference
    qslices,      \* the step slices in memory, by reference
    run1,         \* summary of a first, completed run (two-run specification)
    made,         \* what newCBiRRTMotionPlanner returned: <<planner built, error>>
    logged,       \* the map lengths the runner has read for its first debug line
    \* smoothPath
    spc,              \* position of smoothPath
    SmoothIter,       \* mp.planOpts.SmoothIter
    inputSteps,       \* its variable inputSteps: nodes [id, q, corner]
    toIter,           \* its variable toIter
    numCornersToPass, \* its outer loop variable
    smoothIter,       \* its inner loop variable iter
    iIx, jIx,         \* its variables i and j
    hitCorners,       \* its variable hitCorners, as indices into inputSteps
    nextId,           \* identities given to nodes so far
    offPath,          \* the nodes splices took off the path, with their flags
    \* package app: CreateViamClientWithOptions and the ViamClient getters
    apc,          \* position of the caller of package app
    options,      \* the Options passed in
    dialErr,      \* the error dialDirectGRPC reports when called ("none": nil)
    dialCalls,    \* the hosts dialDirectGRPC was called with, in order
    created,      \* what the Create function returned, whether it called
                  \* CreateViamClientWithOptions and with which Options, and its
                  \* local options.BaseURL when it returned
    sub,          \* the five sub-client fields of the ViamClient (0: nil)
    got,          \* the getter called last and what it returned
    nextInst,     \* sub-client instances created so far
    \* getFrameSteps
    gpc,                    \* position of getFrameSteps
    lfs,                    \* lfs.frames: per frame its name and DoF limits
    percentTotalMovement,   \* its second argument, in hundredths
    fIx,                    \* frames the loop of line 487 has handled
    frameQstep,             \* the map frameQstep, steps in hundredths
    \* package tpspace: ptgDiffDriveSideS
    vpc,          \* position of the caller of package tpspace
    ptg,          \* the ptgDiffDriveSideS constructed
    alphaIn,      \* the alpha of the last PTGVelocities call
    distIn,       \* the dist of the last PTGVelocities call
    velocities    \* what the last PTGVelocities call returned

smoothVars == <<spc, SmoothIter, inputSteps, toIter, numCornersToPass, smoothIter, iIx, jIx,
                hitCorners, nextId, offPath>>

appVars == <<apc, options, dialErr, dialCalls, created, sub, got, nextInst>>

stepVars == <<gpc, lfs, percentTotalMovement, fIx, frameQstep>>

ptgVars == <<vpc, ptg, alphaIn, distIn, velocities>>

otherVars == <<stepVars, ptgVars>>

vars == <<blocked, roots, env, initMaps, planOptsNil, PlanIter, ctxDone, tree, rpc, iter, second,
          target, map1, map2, nearest, reached, nn, ext, mchan, mclosed,
          solutionChan, solClosed, sent, randCount, ppc, solution, innerErr,
          algQstep, qslices, run1, made, logged, smoothVars, appVars, otherVars>>

(***************************************************************************)
(* Constraint handler.                                                     *)
(***************************************************************************)
\* the state constraints of one configuration
StateValid(c) == c \notin blocked

\* number of sub-segments of a -> b at Resolution spacing
SegSteps(a, b) ==
    Max(1, Max(Abs(CX(a) - CX(b)), Abs(CY(a) - CY(b))) \div Resolution)

SegPoint(a, b, k) == InterpolateFS(a, b, k, SegSteps(a, b))

\* CheckSegmentAndStateValidityFS(segment a -> b, Resolution): ok
SegmentValid(a, b) == \A k \in 0 .. SegSteps(a, b) : StateValid(SegPoint(a, b, k))

\* its second result: the first failing sub-segment <<start, end>>, or <<>>
\* when the segment is valid or already fails at its start
FailPos(a, b) ==
    IF SegmentValid(a, b) \/ ~StateValid(a) THEN <<>>
    ELSE LET k == CHOOSE j \in 1 .. SegSteps(a, b) :
                     /\ ~StateValid(SegPoint(a, b, j))
                     /\ \A m \in 0 .. (j - 1) : StateValid(SegPoint(a, b, m))
         IN <<SegPoint(a, b, k - 1), SegPoint(a, b, k)>>

(***************************************************************************)
(* IK solver and sampler.                                                  *)
(***************************************************************************)
\* a deterministic solver: one fixed answer per linear seed, which
\* constrainNear makes from its target (lines 364 and 370)
DetSolve(linearSeed) ==
    IF linearSeed = Cfg(1, 0) THEN Cfg(1, 1)
    ELSE IF linearSeed = Cfg(1, 2) THEN Cfg(1, 0)
    ELSE IF linearSeed = Cfg(2, 1) THEN Cfg(0, 1)
    ELSE Nil

\* the configurations the IK solver of the world may emit
SolverOutputs == (CHOOSE w \in Worlds : w.blocked = blocked).solutions

\* the configurations Solve may put on solutionGen (Nil: none)
SolverSolutions(linearSeed) ==
    IF env = "det" THEN {DetSolve(linearSeed)} ELSE SolverOutputs \cup {Nil}

\* a deterministic sampler: one fixed answer per anchor and iteration
DetSample(q, i) == IF i % 2 = 0 THEN Cfg(1, 0) ELSE Cfg(1, 1)

\* the configurations mp.sample may return
SampleTargets(q, i) == IF env = "det" THEN {DetSample(q, i)} ELSE SampleOutputs

\* the failures an external call may report
ExternalErrors == IF env = "det" THEN {FALSE} ELSE BOOLEAN

(***************************************************************************)
(* constrainNear.  One call is computed as the set of its possible         *)
(* outcomes: the loop is unrolled over the set of <<seedInputs, target>>   *)
(* pairs the k-th iteration may start from.                                *)
(***************************************************************************)
\* an outcome; draws counts the calls of Solve (line 370), each of which takes
\* one value from the generator the caller passed
CNOut(res, err, k, c, d) ==
    [res |-> res, err |-> err, iters |-> k, closeAt |-> c, draws |-> d]

\* what one iteration may return, from seedInputs = p[1] and target = p[2];
\* p[3] is the iteration (from 1) in which a solution first failed the check
\* with the end of its failing sub-segment within InputIdentDist of target,
\* 0 when none has.  mapToSlice fails before the call of Solve, sliceToMap
\* after it.
CNReturns(p, k) ==
    IF SegmentValid(p[1], p[2]) THEN {CNOut(p[2], "none", k + 1, p[3], k)}
    ELSE {CNOut(Nil, "LinearizationFailure", k + 1, p[3], k + j) :
             j \in {0, 1}, e \in ExternalErrors \ {FALSE}}
         \cup {CNOut(Nil, "SolverFailure", k + 1, p[3], k + 1) :
                   e \in ExternalErrors \ {FALSE}}
         \cup {CNOut(Nil, "none", k + 1, p[3], k + 1) :
                  s \in {x \in SolverSolutions(p[2]) :
                            x = Nil \/ (~SegmentValid(p[1], x) /\ FailPos(p[1], x) = <<>>)}}
         \cup {CNOut(s, "none", k + 1, p[3], k + 1) :
                  s \in {x \in SolverSolutions(p[2]) \ {Nil} : SegmentValid(p[1], x)}}

\* the pair the next iteration starts from, after solution s failed the check
\* in iteration k (from 0)
CNRecurse(p, s, k) ==
    LET failpos == FailPos(p[1], s)
    IN IF configurationDistanceFunc(p[2], failpos[2]) > InputIdentDist
       THEN <<failpos[1], failpos[2], p[3]>>
       ELSE <<p[1], p[2], IF p[3] = 0 THEN k + 1 ELSE p[3]>>

\* the pairs the next iteration may start from
CNNext(p, k) ==
    IF SegmentValid(p[1], p[2]) THEN {}
    ELSE {CNRecurse(p, s, k) :
             s \in {x \in SolverSolutions(p[2]) \ {Nil} :
                       ~SegmentValid(p[1], x) /\ FailPos(p[1], x) # <<>>}}

\* the loop of lines 345-411 from its k-th iteration (from 0), frontier being
\* the pairs that iteration may start from: what the iterations may return,
\* and nil after the last one.  The next frontier is bound once, as the
\* element of a singleton.
RECURSIVE CNRun(_, _)
CNRun(frontier, k) ==
    IF frontier = {} THEN {}
    ELSE IF k >= maxNearIter THEN {CNOut(Nil, "none", k, p[3], k) : p \in frontier}
    ELSE UNION {CNReturns(p, k) : p \in frontier}
         \cup UNION {CNRun(next, k + 1) : next \in {UNION {CNNext(p, k) : p \in frontier}}}

\* constrainNear(ctx, randseed, seedInputs, target): its possible outcomes
constrainNear(done, seedInputs, tgt) ==
    IF done THEN {CNOut(Nil, "none", 0, 0, 0)}
    ELSE CNRun({<<seedInputs, tgt, 0>>}, 0)

(***************************************************************************)
(* Trees, nodes, nearest neighbour, path extraction.                       *)
(***************************************************************************)
TreeNames == {"start", "goal"}
\* with the shortcutGoal map of smoothPath
AllTrees == TreeNames \cup {"shortcut"}
\* the two extends of tryExtend, and the extend smoothPath calls
Extends == 1 .. 3
Other(t) == IF t = "start" THEN "goal" ELSE "start"

\* a node is <<tree name, index>>; its configuration, parent and corner flag
Q(n) == tree[n[1]][n[2]].q
NodeQ(t, ix) == tree[t][ix].q

RootTree(qs) == [ix \in 1 .. Len(qs) |-> [q |-> qs[ix], parent |-> 0, corner |-> FALSE]]

\* nearestNeighbor(nmContext, target, rrtMap, nodeConfigurationDistanceFunc):
\* the nodes it may return
nearestNeighbor(done, tgt, t) ==
    IF done THEN {<<t, ix>> : ix \in DOMAIN tree[t]} \cup {NoNode}
    ELSE {<<t, ix>> : ix \in {j \in DOMAIN tree[t] :
            \A m \in DOMAIN tree[t] :
               configurationDistanceFunc(NodeQ(t, j), tgt)
                  <= configurationDistanceFunc(NodeQ(t, m), tgt)}}

\* the parent chain of node ix of tree t, from ix to its root
RECURSIVE Chain(_, _)
Chain(t, ix) == IF ix = 0 THEN <<>> ELSE <<<<t, ix>>>> \o Chain(t, tree[t][ix].parent)

Reverse(s) == [ix \in 1 .. Len(s) |-> s[Len(s) + 1 - ix]]

\* extractPath(startMap, goalMap, &nodePair{a, b}, true), startMap and
\* goalMap given by name
extractPath(sm, gm, a, b) ==
    LET startReached == IF a[1] = sm THEN a ELSE b
        goalReached == IF a[1] = sm THEN b ELSE a
    IN Reverse(Chain(startReached[1], startReached[2]))
          \o Chain(goalReached[1], tree[goalReached[1]][goalReached[2]].parent)

\* a variant that hands map1 and map2 to extractPath
SolvedPathByRole(a, b) == extractPath(map1, map2, a, b)

\* the path reported at line 227
SolvedPath(a, b) == extractPath("start", "goal", a, b)

(***************************************************************************)
(* Initial state: the state in which plan starts rrtBackgroundRunner.      *)
(***************************************************************************)
Solution(err, steps, maps) == [err |-> err, steps |-> steps, maps |-> maps]

\* plan has not received yet
Pending == Solution("pending", <<>>, FALSE)

IdleExt == [pc |-> "idle", tree |-> "start", near |-> 0, oldNear |-> 0, target |-> 0,
            i |-> 0, doubled |-> FALSE, qstep |-> <<>>, newNear |-> 0, cnRes |-> Nil,
            first |-> 0, rng |-> "none", seedDraw |-> 0]

\* a variant of the constructor without the check of opt
newCBiRRTMotionPlannerUnchecked(optNil, plannerErr, nloptErr) ==
    IF plannerErr THEN <<FALSE, "PlannerError">>
    ELSE IF nloptErr THEN <<FALSE, "NloptError">>
    ELSE <<TRUE, "none">>

\* newCBiRRTMotionPlanner(fs, seed, logger, opt, constraintHandler, chains):
\* <<a planner is returned, the error>>, given whether opt is nil and whether
\* newPlanner and ik.CreateNloptSolver fail
newCBiRRTMotionPlanner(optNil, plannerErr, nloptErr) ==
    IF optNil THEN <<FALSE, "NoPlannerOptions">>
    ELSE IF plannerErr THEN <<FALSE, "PlannerError">>
    ELSE IF nloptErr THEN <<FALSE, "NloptError">>
    ELSE <<TRUE, "none">>

\* smoothPath is not running
\* getFrameSteps is not running
StepsIdle ==
    /\ gpc = "idle"
    /\ lfs = <<>>
    /\ percentTotalMovement = 0
    /\ fIx = 0
    /\ frameQstep = <<>>

\* a float64, as its sign bit and its magnitude
Float(n, a) == [neg |-> n, abs |-> a]

\* a rational number
Ratio(n, d) == [num |-> n, den |-> d]

\* no ptgDiffDriveSideS has been constructed
NoPTG == [maxMMPS |-> 0, maxRPS |-> 0, r |-> 0, countersteer |-> Ratio(0, 1)]

\* package tpspace is not in use
PTGIdle ==
    /\ vpc = "idle"
    /\ ptg = NoPTG
    /\ alphaIn = Float(FALSE, 0)
    /\ distIn = 0
    /\ velocities = <<>>

OtherIdle == StepsIdle /\ PTGIdle

SmoothIdle ==
    /\ spc = "idle"
    /\ inputSteps = <<>>
    /\ SmoothIter = 0
    /\ toIter = 0
    /\ numCornersToPass = 0
    /\ smoothIter = 0
    /\ iIx = 0
    /\ jIx = 0
    /\ hitCorners = {}
    /\ nextId = 0
    /\ offPath = {}

\* the five sub-client fields of a ViamClient
SubClients == {"appClient", "billingClient", "dataClient", "mlTrainingClient",
               "provisioningClient"}

\* the ViamClient struct literal &ViamClient{conn: conn}: every sub-client nil
NewViamClient == [g \in SubClients |-> 0]

\* nothing returned yet
NotCreated == [client |-> FALSE, err |-> "none", baseURL |-> "", called |-> FALSE,
               opts |-> [BaseURL |-> "", Entity |-> "", Payload |-> ""]]

\* package app is not in use
AppIdle ==
    /\ apc = "idle"
    /\ options = [BaseURL |-> "", Entity |-> "", Payload |-> ""]
    /\ dialErr = "none"
    /\ dialCalls = <<>>
    /\ created = NotCreated
    /\ sub = NewViamClient
    /\ got = <<"none", 0>>
    /\ nextInst = 0

\* what initRRTSolutions may hand to plan: the two trees, an error, or the
\* connected path from the seed to the first goal root when the segment
\* between them is valid; it is a function of the seed, the goal and the
\* world, so a second call with the same inputs hands back the same
InitOutcomes(w) ==
    {"maps", "err"} \cup (IF SegmentValid(w.starts[1], w.goals[1]) THEN {"steps"} ELSE {})

InitPlanner(w, e, p) ==
    /\ blocked = w.blocked
    /\ env = e
    /\ planOptsNil \in BOOLEAN
    /\ PlanIter \in (0 - 1) .. MaxPlanIter
    /\ ctxDone = FALSE
    /\ tree = [t \in AllTrees |-> IF t = "start" THEN RootTree(w.starts)
                                 ELSE IF t = "goal" THEN RootTree(w.goals)
                                 ELSE <<>>]
    /\ rpc = "unstarted"
    /\ iter = 0
    /\ second = FALSE
    /\ target = 0
    /\ map1 = "start"
    /\ map2 = "goal"
    /\ nearest = [k \in 1 .. 2 |-> NoNode]
    /\ reached = [k \in 1 .. 2 |-> NoNode]
    /\ nn = [k \in 1 .. 2 |-> "idle"]
    /\ roots = [t \in AllTrees |-> IF t = "start" THEN Len(w.starts)
                                  ELSE IF t = "goal" THEN Len(w.goals) ELSE 1]
    /\ ext = [k \in Extends |-> IdleExt]
    /\ mchan = [k \in Extends |-> <<>>]
    /\ mclosed = FALSE
    /\ solutionChan = <<>>
    /\ solClosed = FALSE
    /\ sent = 0
    /\ randCount = 0
    /\ ppc = p
    /\ solution = Pending
    /\ innerErr = "none"
    /\ algQstep = [f \in QFrames |-> <<0, f>>]
    /\ qslices = [r \in SliceRefs |-> IF r[1] = 0 THEN StepSlice(qstepUnit) ELSE NoSlice]
    /\ run1 = <<>>
    /\ logged = <<>>

\* plan has been called on the world w
InitWith(w, e) == InitPlanner(w, e, "init")

\* the planner the runner belongs to comes from the constructor when the
\* options are not nil
Made == made = newCBiRRTMotionPlanner(planOptsNil, FALSE, FALSE)

InitDet == \E w \in Worlds : InitWith(w, "det") /\ initMaps \in InitOutcomes(w) /\ Made /\ SmoothIdle /\ AppIdle /\ OtherIdle

Init == \E w \in Worlds : InitWith(w, "free") /\ initMaps \in InitOutcomes(w) /\ Made /\ SmoothIdle /\ AppIdle /\ OtherIdle

(***************************************************************************)
(* rrtBackgroundRunner.                                                    *)
(***************************************************************************)
\* a variant that returns, closing the channels, without the send
ReturnWithoutSend(sol, chansMade) ==
    /\ UNCHANGED <<solutionChan, sent>>
    /\ solClosed' = TRUE
    /\ mclosed' = chansMade
    /\ rpc' = "done"

\* rrt.solutionChan <- sol; return, with the deferred close calls
SendAndReturn(sol, chansMade) ==
    /\ Len(solutionChan) < 1
    /\ solutionChan' = Append(solutionChan, sol)
    /\ sent' = sent + 1
    /\ solClosed' = TRUE
    /\ mclosed' = chansMade
    /\ rpc' = "done"

\* a variant that loses map1: map1, map2 = map2, map2
SwapMapsBroken == map1' = map2 /\ map2' = map2

\* map1, map2 = map2, map1
SwapMaps == map1' = map2 /\ map2' = map1

\* the two nearestNeighbor goroutines of tryExtend are started
SpawnNearest == nn' = [k \in 1 .. 2 |-> "run"]

\* a variant that copies the map and not the slices: the local table holds
\* the references of the planner's table
deepCopyQstepShared(k, table, mem) == [qstep |-> table, mem |-> mem]

\* lines 253-261, deepCopyQstep in call k: a new map with a new slice for
\* every frame of table, holding copies of the entries; the result is the
\* new map and the memory with the new slices
deepCopyQstep(k, table, mem) ==
    [qstep |-> [f \in DOMAIN table |-> <<k, f>>],
     mem |-> [r \in DOMAIN mem |->
                IF r[1] = k /\ r[2] \in DOMAIN table THEN mem[table[r[2]]] ELSE mem[r]]]

\* lines 310-314: qstep[f][i] = q * 2.0 for every entry of every slice the
\* table qstep refers to
DoubleSteps(qstep, mem) ==
    [r \in DOMAIN mem |->
        IF \E f \in DOMAIN qstep : qstep[f] = r
        THEN [i \in DOMAIN mem[r] |-> mem[r][i] * 2]
        ELSE mem[r]]

\* the memory once call k has returned: no variable refers to the slices it
\* made any more
Collected(k, mem) == [r \in DOMAIN mem |-> IF r[1] = k THEN NoSlice ELSE mem[r]]

\* the memory after step of call k: its slices go when it has returned
AfterStep(k, e, mem) == IF e.pc \in {"top", "near"} THEN mem ELSE Collected(k, mem)

\* the arguments of mp.constrainedExtend(ctx, rseed, rrtMap, near, target, mchan)
\* of call k, and its local qstep (line 262)
StartExtend(k, t, n, tgt) ==
    [IdleExt EXCEPT !.pc = "top", !.tree = t, !.near = n[2], !.oldNear = n[2],
                    !.first = n[2],
                    !.target = tgt,
                    !.qstep = deepCopyQstep(k, algQstep, qslices).qstep]

\* lines 99-135: options check, first target, map1 and map2
RStart ==
    /\ rpc = "start"
    /\ logged' = <<Len(tree["start"]), Len(tree["goal"])>>
    /\ IF planOptsNil
       THEN /\ SendAndReturn(Solution("NoPlannerOptions", <<>>, FALSE), FALSE)
            /\ UNCHANGED <<target, map1, map2, iter>>
       ELSE \E r \in {ix \in DOMAIN tree["start"] : tree["start"][ix].parent = 0},
               e \in ExternalErrors :
               IF e
               THEN /\ SendAndReturn(Solution("InterpolationFailure", <<>>, FALSE), FALSE)
                    /\ UNCHANGED <<target, map1, map2, iter>>
               ELSE /\ target' = InterpolateFS(NodeQ("start", r), NodeQ("goal", 1), 1, 2)
                    /\ map1' = "start"
                    /\ map2' = "goal"
                    /\ iter' = 0
                    /\ rpc' = "loopTop"
                    /\ UNCHANGED <<solutionChan, sent, solClosed, mclosed>>
    /\ UNCHANGED <<blocked, roots, env, initMaps, planOptsNil, PlanIter, ctxDone, tree, second, nearest,
                   reached, nn, ext, mchan, randCount, ppc, solution, innerErr,
                   algQstep, qslices, run1, made, smoothVars, appVars, otherVars>>

\* a variant that runs one iteration too many
LoopCondOffByOne == iter <= PlanIter

\* a variant without the iteration cap
LoopCondAlways == TRUE

\* a variant that drops the trees from the timeout solution
TimeoutSolutionNoMaps == Solution("Timeout", <<>>, FALSE)

\* line 142: i < mp.planOpts.PlanIter
LoopCond == iter < PlanIter

\* line 146: the solution sent when the context is done
TimeoutSolution == Solution("Timeout", <<>>, TRUE)

\* lines 142-161 and 240: loop condition, cancellation check, start of tryExtend
RLoopTop ==
    /\ rpc = "loopTop"
    /\ IF LoopCond
       THEN IF ctxDone
            THEN /\ SendAndReturn(TimeoutSolution, TRUE)
                 /\ UNCHANGED <<nn, second>>
            ELSE /\ SpawnNearest
                 /\ second' = FALSE
                 /\ rpc' = "recvNN1"
                 /\ UNCHANGED <<solutionChan, sent, solClosed, mclosed>>
       ELSE /\ SendAndReturn(Solution("PlannerFailed", <<>>, TRUE), TRUE)
            /\ UNCHANGED <<nn, second>>
    /\ UNCHANGED <<blocked, roots, env, initMaps, planOptsNil, PlanIter, ctxDone, tree, iter, target,
                   map1, map2, nearest, reached, ext, mchan, randCount, ppc, solution,
                   innerErr, algQstep, qslices, run1, made, logged, smoothVars, appVars, otherVars>>

\* a variant that launches the first extend as soon as nearest1 is in
RRecvNN1Eager ==
    /\ rpc = "recvNN1"
    /\ mchan[1] # <<>>
    /\ nearest' = [nearest EXCEPT ![1] = Head(mchan[1])]
    /\ mchan' = [mchan EXCEPT ![1] = Tail(mchan[1])]
    /\ ext' = [ext EXCEPT ![1] = StartExtend(1, map1, nearest'[1], target)]
    /\ qslices' = deepCopyQstep(1, algQstep, qslices).mem
    /\ rpc' = "recvNN2"
    /\ UNCHANGED <<blocked, roots, env, initMaps, planOptsNil, PlanIter, ctxDone, tree, iter, second,
                   target, map1, map2, reached, nn, mclosed, solutionChan,
                   solClosed, sent, randCount, ppc, solution, innerErr, algQstep, run1,
                   made, logged, smoothVars, appVars, otherVars>>

\* line 162: nearest1 := <-m1chan
RRecvNN1 ==
    /\ rpc = "recvNN1"
    /\ mchan[1] # <<>>
    /\ nearest' = [nearest EXCEPT ![1] = Head(mchan[1])]
    /\ mchan' = [mchan EXCEPT ![1] = Tail(mchan[1])]
    /\ rpc' = "recvNN2"
    /\ UNCHANGED <<blocked, roots, env, initMaps, planOptsNil, PlanIter, ctxDone, tree, iter, second,
                   target, map1, map2, reached, nn, ext, mclosed, solutionChan,
                   solClosed, sent, randCount, ppc, solution, innerErr, algQstep, qslices, run1, made, logged, smoothVars, appVars, otherVars>>

\* a variant in which both extends are handed the planner's own PRNG
MasterSeed(k) == "mp.randseed"

\* lines 172-181: the PRNG handed to the k-th extend of tryExtend
ChildSeed(k) == IF k = 1 THEN "rseed1" ELSE "rseed2"

\* lines 172 and 174: the draw of mp.randseed that seeds it, rseed1 first
ChildDraw(k) == randCount + k

\* a variant of tryExtend without the check of the context
NearestNeverInvalid == FALSE

\* lines 165-169: select on ctx.Done() after both nearest neighbours are in
NearestInvalid == ctxDone

\* lines 163-181: nearest2 := <-m2chan, cancellation check, the two child
\* seeds, the two constrainedExtend goroutines
RRecvNN2 ==
    /\ rpc = "recvNN2"
    /\ mchan[2] # <<>>
    /\ nearest' = [nearest EXCEPT ![2] = Head(mchan[2])]
    /\ mchan' = [mchan EXCEPT ![2] = Tail(mchan[2])]
    /\ IF NearestInvalid
       THEN /\ SendAndReturn(Solution("ContextError", <<>>, TRUE), TRUE)
            /\ UNCHANGED <<ext, randCount, qslices>>
       ELSE /\ randCount' = randCount + 2
            /\ ext' = [k \in Extends |->
                         IF k = 3 THEN ext[3]
                         ELSE [StartExtend(k, IF k = 1 THEN map1 ELSE map2, nearest'[k],
                                           target)
                                 EXCEPT !.rng = ChildSeed(k), !.seedDraw = ChildDraw(k)]]
            /\ qslices' = deepCopyQstep(2, algQstep,
                                        deepCopyQstep(1, algQstep, qslices).mem).mem
            /\ rpc' = "recvE1"
            /\ UNCHANGED <<solutionChan, sent, solClosed, mclosed>>
    /\ UNCHANGED <<blocked, roots, env, initMaps, planOptsNil, PlanIter, ctxDone, tree, iter, second,
                   target, map1, map2, reached, nn, ppc, solution, innerErr, algQstep,
                   run1, made, logged, smoothVars, appVars, otherVars>>

\* line 182: map1reached := <-m1chan
RRecvE1 ==
    /\ rpc = "recvE1"
    /\ mchan[1] # <<>>
    /\ reached' = [reached EXCEPT ![1] = Head(mchan[1])]
    /\ mchan' = [mchan EXCEPT ![1] = Tail(mchan[1])]
    /\ rpc' = "recvE2"
    /\ UNCHANGED <<blocked, roots, env, initMaps, planOptsNil, PlanIter, ctxDone, tree, iter, second,
                   target, map1, map2, nearest, nn, ext, mclosed, solutionChan,
                   solClosed, sent, randCount, ppc, solution, innerErr, algQstep, qslices, run1, made, logged, smoothVars, appVars, otherVars>>

\* map1reached.SetCorner(true); map2reached.SetCorner(true)
SetCorners(tr, a, b) ==
    [t \in DOMAIN tr |->
        [ix \in DOMAIN tr[t] |->
            IF <<t, ix>> = a \/ <<t, ix>> = b
            THEN [tr[t][ix] EXCEPT !.corner = TRUE] ELSE tr[t][ix]]]

\* a variant in which the second round is a loop
RetryAlways == TRUE

\* line 205 is an if, not a loop: a second tryExtend only after the first
MayRetry == ~second

\* a variant that takes nodes two steps apart as connected
ConnectedLoose(reachedDelta) == reachedDelta <= InputIdentDist + InputIdentDist

\* line 224: the two trees are connected
Connected(reachedDelta) == reachedDelta <= InputIdentDist

\* lines 183-238: map2reached := <-m2chan, the corner flags, reachedDelta, and
\* then the second tryExtend, the solution, or the sample and the swap
RRecvE2 ==
    /\ rpc = "recvE2"
    /\ mchan[2] # <<>>
    /\ reached' = [reached EXCEPT ![2] = Head(mchan[2])]
    /\ mchan' = [mchan EXCEPT ![2] = Tail(mchan[2])]
    /\ tree' = SetCorners(tree, reached'[1], reached'[2])
    /\ LET reachedDelta == configurationDistanceFunc(Q(reached'[1]), Q(reached'[2]))
       IN \E e \in ExternalErrors, smp \in SampleTargets(Q(reached'[1]), iter) :
            IF MayRetry /\ reachedDelta > InputIdentDist
            THEN IF e
                 THEN /\ SendAndReturn(Solution("InterpolationFailure", <<>>, TRUE), TRUE)
                      /\ UNCHANGED <<target, second, nn, map1, map2, iter>>
                 ELSE /\ target' = InterpolateFS(Q(reached'[1]), Q(reached'[2]), 1, 2)
                      /\ second' = TRUE
                      /\ SpawnNearest
                      /\ rpc' = "recvNN1"
                      /\ UNCHANGED <<solutionChan, sent, solClosed, mclosed, map1, map2,
                                     iter>>
            ELSE IF Connected(reachedDelta)
                 THEN /\ SendAndReturn(
                            Solution("none", SolvedPath(reached'[1], reached'[2]), TRUE),
                            TRUE)
                      /\ UNCHANGED <<target, second, nn, map1, map2, iter>>
                 ELSE IF e
                      THEN /\ SendAndReturn(Solution("SampleFailure", <<>>, TRUE), TRUE)
                           /\ UNCHANGED <<target, second, nn, map1, map2, iter>>
                      ELSE /\ target' = smp
                           /\ SwapMaps
                           /\ iter' = iter + 1
                           /\ rpc' = "loopTop"
                           /\ UNCHANGED <<solutionChan, sent, solClosed, mclosed, second,
                                          nn>>
    /\ UNCHANGED <<blocked, roots, env, initMaps, planOptsNil, PlanIter, ctxDone, nearest, ext, randCount,
                   ppc, solution, innerErr, algQstep, qslices, run1, made, logged, smoothVars, appVars, otherVars>>

(***************************************************************************)
(* The nearest-neighbour goroutines (lines 156-161).                       *)
(***************************************************************************)
MapOf(k) == IF k = 1 THEN map1 ELSE map2

\* m_k chan <- nm.nearestNeighbor(nmContext, target, map_k, ...)
NNRun(k) ==
    /\ nn[k] = "run"
    /\ Len(mchan[k]) < 1
    /\ \E r \in nearestNeighbor(ctxDone, target, MapOf(k)) :
          mchan' = [mchan EXCEPT ![k] = Append(mchan[k], r)]
    /\ nn' = [nn EXCEPT ![k] = IF mclosed THEN "panic" ELSE "idle"]
    /\ UNCHANGED <<blocked, roots, env, initMaps, planOptsNil, PlanIter, ctxDone, tree, rpc, iter,
                   second, target, map1, map2, nearest, reached, ext, mclosed,
                   solutionChan, solClosed, sent, randCount, ppc, solution, innerErr,
                   algQstep, qslices, run1, made, logged, smoothVars, appVars, otherVars>>

(***************************************************************************)
(* constrainedExtend (lines 245-334), one goroutine per tree.              *)
(***************************************************************************)
\* a variant that returns without a send once the context is done
EmitUnlessCancelled(k, n) ==
    /\ Len(mchan[k]) < 1
    /\ mchan' = IF ctxDone THEN mchan
                ELSE [mchan EXCEPT ![k] = Append(mchan[k], <<ext[k].tree, n>>)]
    /\ ext' = [ext EXCEPT ![k] = [IdleExt EXCEPT !.pc = IF mclosed THEN "panic" ELSE "idle"]]

\* a variant that emits the node of the configuration constrainNear returned
\* last, whether or not it was added to the map
EmitNewNear(k, n) ==
    /\ Len(mchan[k]) < 1
    /\ mchan' = [mchan EXCEPT ![k] =
                   Append(mchan[k],
                          <<ext[k].tree,
                            IF ext[k].pc = "near" THEN Len(tree[ext[k].tree]) + 1 ELSE n>>)]
    /\ ext' = [ext EXCEPT ![k] = [IdleExt EXCEPT !.pc = IF mclosed THEN "panic" ELSE "idle"]]

\* a variant that emits the latest node of the call, whatever its distance
EmitLatest(k, n) ==
    /\ Len(mchan[k]) < 1
    /\ mchan' = [mchan EXCEPT ![k] = Append(mchan[k], <<ext[k].tree, ext[k].near>>)]
    /\ ext' = [ext EXCEPT ![k] = [IdleExt EXCEPT !.pc = IF mclosed THEN "panic" ELSE "idle"]]

\* mchan <- n; return
Emit(k, n) ==
    /\ Len(mchan[k]) < 1
    /\ mchan' = [mchan EXCEPT ![k] = Append(mchan[k], <<ext[k].tree, n>>)]
    /\ ext' = [ext EXCEPT ![k] = [IdleExt EXCEPT !.pc = IF mclosed THEN "panic" ELSE "idle"]]

\* the step of a DOF in the table qstep (the entries are the same for every
\* DOF of every frame)
StepOf(qstep, mem) == mem[qstep[CHOOSE f \in DOMAIN qstep : TRUE]][1]

\* the step table handed to fixedStepInterpolation at line 296
StepTable(e) == StepOf(algQstep, qslices)

\* lines 272-296: loop condition, cancellation, the two distances, the step
ExtTop(k) ==
    LET e == ext[k]
        dist == configurationDistanceFunc(NodeQ(e.tree, e.near), e.target)
        oldDist == configurationDistanceFunc(NodeQ(e.tree, e.oldNear), e.target)
    IN /\ e.pc = "top"
       /\ IF e.i >= maxExtendIter THEN Emit(k, e.oldNear)
          ELSE IF ctxDone THEN Emit(k, e.oldNear)
          ELSE IF dist < InputIdentDist THEN Emit(k, e.near)
          ELSE IF dist > oldDist THEN Emit(k, e.oldNear)
          ELSE /\ ext' = [ext EXCEPT ![k] =
                     [e EXCEPT !.pc = "near", !.oldNear = e.near, !.cnRes = Nil,
                               !.newNear = fixedStepInterpolation(
                                              NodeQ(e.tree, e.near), e.target, StepTable(e))]]
               /\ UNCHANGED mchan
       /\ qslices' = AfterStep(k, ext'[k], qslices)
       /\ UNCHANGED <<blocked, roots, env, initMaps, planOptsNil, PlanIter, ctxDone, tree, rpc, iter,
                      second, target, map1, map2, nearest, reached, nn, mclosed,
                      solutionChan, solClosed, sent, randCount, ppc, solution, innerErr,
                      algQstep, run1, made, logged, smoothVars, appVars, otherVars>>

\* a variant that records as parent a node that is not in the map
InsertNodeLooseParent(t, q, parent) ==
    [tree EXCEPT ![t] = Append(tree[t], [q |-> q, parent |-> Len(tree[t]) + 2,
                                        corner |-> FALSE])]

\* a variant that also makes the new node the parent of oldNear
InsertNodeBackPointer(t, q, parent) ==
    [tree EXCEPT ![t] =
        Append([tree[t] EXCEPT ![parent].parent = Len(tree[t]) + 1],
               [q |-> q, parent |-> parent, corner |-> FALSE])]

\* rrtMap[near] = oldNear for a new node near of configuration q
InsertNode(t, q, parent) ==
    [tree EXCEPT ![t] = Append(tree[t], [q |-> q, parent |-> parent, corner |-> FALSE])]

\* lines 298-331: constrainNear, the near-identical check, the insertion
ExtNear(k) ==
    LET e == ext[k] IN
    /\ e.pc = "near"
    /\ \E o \in constrainNear(ctxDone, NodeQ(e.tree, e.oldNear), e.newNear) :
          LET nearDist == configurationDistanceFunc(NodeQ(e.tree, e.oldNear), o.res)
          IN /\ randCount' = IF e.rng = "mp.randseed" THEN randCount + o.draws
                             ELSE randCount
             /\ innerErr' = IF o.err # "none" THEN o.err ELSE innerErr
             /\ IF o.res = Nil
                THEN /\ Emit(k, e.oldNear)
                     /\ qslices' = AfterStep(k, ext'[k], qslices)
                     /\ UNCHANGED tree
                ELSE IF nearDist < IdentDistCubed
                THEN /\ IF ~e.doubled
                        THEN /\ ext' = [ext EXCEPT ![k] =
                                   [e EXCEPT !.doubled = TRUE,
                                             !.cnRes = o.res, !.i = e.i + 1, !.pc = "top"]]
                             /\ qslices' = DoubleSteps(e.qstep, qslices)
                             /\ UNCHANGED mchan
                        ELSE /\ Emit(k, e.oldNear)
                             /\ qslices' = AfterStep(k, ext'[k], qslices)
                     /\ UNCHANGED tree
                ELSE /\ tree' = InsertNode(e.tree, o.res, e.oldNear)
                     /\ ext' = [ext EXCEPT ![k] =
                           [e EXCEPT !.qstep = IF e.doubled
                                                THEN deepCopyQstep(k, algQstep, qslices).qstep
                                                ELSE e.qstep,
                                     !.doubled = FALSE, !.cnRes = o.res,
                                     !.near = Len(tree[e.tree]) + 1,
                                     !.i = e.i + 1, !.pc = "top"]]
                     /\ qslices' = IF e.doubled THEN deepCopyQstep(k, algQstep, qslices).mem
                                   ELSE qslices
                     /\ UNCHANGED mchan
    /\ UNCHANGED <<blocked, roots, env, initMaps, planOptsNil, PlanIter, ctxDone, rpc, iter, second,
                   target, map1, map2, nearest, reached, nn, mclosed,
                   solutionChan, solClosed, sent, ppc, solution, algQstep,
                   run1, made, logged, smoothVars, appVars, otherVars>>

(***************************************************************************)
(* plan (lines 73-90) and the caller's context.                            *)
(***************************************************************************)

\* initMaps.steps: the seed and a root of the goal tree
InitMapsSteps == <<<<"start", 1>>, <<"goal", 1>>>>

\* lines 75-84: initRRTSolutions, the two early returns, the launch of the
\* runner
PlanInit ==
    /\ ppc = "init"
    /\ IF initMaps = "err"
       THEN /\ ppc' = "returned"
            /\ solution' = Solution("InitFailure", <<>>, FALSE)
            /\ UNCHANGED rpc
       ELSE IF initMaps = "steps"
       THEN /\ ppc' = "returned"
            /\ solution' = Solution("none", InitMapsSteps, FALSE)
            /\ UNCHANGED rpc
       ELSE /\ ppc' = "wait"
            /\ rpc' = "start"
            /\ UNCHANGED solution
    /\ UNCHANGED <<blocked, roots, env, initMaps, planOptsNil, PlanIter, ctxDone, tree, iter, second,
                   target, map1, map2, nearest, reached, nn, ext, mchan, mclosed,
                   solutionChan, solClosed, sent, randCount, innerErr, algQstep, qslices, run1,
                   made, logged, smoothVars, appVars, otherVars>>

\* solution := <-solutionChan, and the return
PlanRecv ==
    /\ ppc = "wait"
    /\ solutionChan # <<>> \/ solClosed
    /\ IF solutionChan # <<>>
       THEN /\ solution' = Head(solutionChan)
            /\ solutionChan' = Tail(solutionChan)
       ELSE /\ solution' = Solution("nil solution", <<>>, FALSE)
            /\ UNCHANGED solutionChan
    /\ ppc' = "returned"
    /\ UNCHANGED <<blocked, roots, env, initMaps, planOptsNil, PlanIter, ctxDone, tree, rpc, iter, second,
                   target, map1, map2, nearest, reached, nn, ext, mchan, mclosed,
                   solClosed, sent, randCount, innerErr, algQstep, qslices, run1, made, logged, smoothVars, appVars, otherVars>>

\* the caller cancels the context, or its deadline passes
Cancel ==
    /\ env = "free"
    /\ ~ctxDone
    /\ rpc # "done"
    /\ ctxDone' = TRUE
    /\ UNCHANGED <<blocked, roots, env, initMaps, planOptsNil, PlanIter, tree, rpc, iter, second,
                   target, map1, map2, nearest, reached, nn, ext, mchan, mclosed,
                   solutionChan, solClosed, sent, randCount, ppc, solution, innerErr,
                   algQstep, qslices, run1, made, logged, smoothVars, appVars, otherVars>>

Next ==
    \/ Cancel
    \/ PlanInit
    \/ PlanRecv
    \/ RStart
    \/ RLoopTop
    \/ RRecvNN1
    \/ RRecvNN2
    \/ RRecvE1
    \/ RRecvE2
    \/ \E k \in 1 .. 2 : NNRun(k)
    \/ \E k \in 1 .. 2 : ExtTop(k)
    \/ \E k \in 1 .. 2 : ExtNear(k)

Spec == Init /\ [][Next]_vars

(***************************************************************************)
(* Claims.                                                                 *)
(***************************************************************************)
\* every node a tree has gained, as <<tree, index>>
Inserted == {n \in UNION {{t} \X DOMAIN tree[t] : t \in TreeNames} :
                tree[n[1]][n[2]].parent # 0}

ParentQ(n) == NodeQ(n[1], tree[n[1]][n[2]].parent)

\* C1: every (child -> parent) entry that constrainedExtend has inserted into
\* startMap or goalMap has a segment parent.Q -> child.Q that the constraint
\* handler accepts at Resolution, whatever constrainNear did to produce it.
C1_InsertedEdgesValid == \A n \in Inserted : SegmentValid(ParentQ(n), Q(n))

\* C2: whenever constrainNear returned a configuration r, the segment from the
\* seedInputs the caller passed (oldNear.Q()) to r is valid at Resolution.
C2_ConstrainNearResultValid ==
    \A k \in 1 .. 2 :
        (ext[k].pc = "top" /\ ext[k].cnRes # Nil)
            => SegmentValid(NodeQ(ext[k].tree, ext[k].oldNear), ext[k].cnRes)

\* the solution the runner sent: still in the channel, or received by plan
Sol == IF solutionChan # <<>> THEN Head(solutionChan) ELSE solution

IsRoot(n) == tree[n[1]][n[2]].parent = 0
Last(p) == p[Len(p)]

\* plan returned a path
Solved == ppc = "returned" /\ solution.err = "none"

\* C3 as stated: a reported path is non-empty, starts at the root of the
\* start tree and ends at a root of the goal tree.
C3_PathFromStartRootToGoalRoot ==
    Solved => /\ Len(solution.steps) > 0
              /\ solution.steps[1][1] = "start" /\ IsRoot(solution.steps[1])
              /\ Last(solution.steps)[1] = "goal" /\ IsRoot(Last(solution.steps))

\* C3 amended: a reported path is non-empty, starts at a root of the start
\* tree and ends at a node within InputIdentDist of a root of the goal tree,
\* which is a goal root itself unless the goal-side meeting node is a root;
\* at even and at odd outer iterations alike.
C3_PathFromStartRootToGoal ==
    Solved =>
       /\ Len(solution.steps) > 0
       /\ solution.steps[1][1] = "start" /\ IsRoot(solution.steps[1])
       /\ \E g \in 1 .. roots["goal"] :
             configurationDistanceFunc(Q(Last(solution.steps)), NodeQ("goal", g))
                <= InputIdentDist
       /\ \/ Last(solution.steps)[1] = "goal" /\ IsRoot(Last(solution.steps))
          \/ \E k \in 1 .. 2 : reached[k][1] = "goal" /\ IsRoot(reached[k])

\* a path found at an odd outer iteration (map1 is the goal tree), with
\* nodes of both trees on it
C3_Witness ==
    /\ Solved /\ map1 = "goal" /\ iter = 1
    /\ Len(solution.steps) >= 3
    /\ Last(solution.steps)[1] = "goal"

\* the goal-side meeting node is a root: the path ends in the start tree
C3_WitnessRootMeeting ==
    Solved /\ Last(solution.steps)[1] = "start"

\* C4: every pair of consecutive nodes of a returned path is a segment that
\* the constraint handler accepts at Resolution, the joining pair included.
C4_PathSegmentsValid ==
    Solved => \A j \in 1 .. (Len(solution.steps) - 1) :
                 SegmentValid(Q(solution.steps[j]), Q(solution.steps[j + 1]))

\* the same for the runs in which every inserted edge is valid: only the
\* joining pair can fail
C4_JoinValidWhenEdgesValid == C1_InsertedEdgesValid => C4_PathSegmentsValid

\* C5, safety part: at most one solution is ever sent, the channel is closed
\* only after exactly one was sent, and plan never receives nil.
C5_OneSolution ==
    /\ sent <= 1
    /\ solClosed => sent = 1
    /\ rpc = "done" => (sent = 1 /\ solClosed)
    /\ ppc = "returned" => solution.err \notin {"nil solution", "pending"}

\* C5: on every execution exactly one rrtSolution is sent before the channel
\* is closed, and the receive in plan eventually obtains it.
C5_ExactlyOneSolutionReceived == [](C5_OneSolution) /\ <>(ppc = "returned")

\* plan received the single solution of a run that ended in tryExtend's
\* cancellation check
C5_Witness ==
    /\ ppc = "returned" /\ rpc = "done" /\ sent = 1 /\ solClosed
    /\ solution.err = "ContextError"

\* C6: when the context is done as an outer iteration begins, that step of the
\* runner sends the single solution (timeout error, both trees, no path),
\* starts no goroutine and leaves the trees as they were.
C6_TimeoutAtLoopTop ==
    [][(rpc = "loopTop" /\ iter < PlanIter /\ ctxDone /\ rpc' # rpc)
          => /\ rpc' = "done"
             /\ solutionChan' = <<Solution("Timeout", <<>>, TRUE)>>
             /\ sent' = 1
             /\ tree' = tree
             /\ nn' = nn /\ ext' = ext
             /\ \A k \in 1 .. 2 : nn[k] = "idle" /\ ext[k].pc = "idle"]_vars

\* a timeout reported at the second iteration, after the trees have grown
C6_Witness ==
    /\ rpc = "done" /\ Sol.err = "Timeout" /\ iter = 1
    /\ Len(tree["start"]) > roots["start"]

TreesUntouched ==
    \A t \in TreeNames :
        /\ Len(tree[t]) = roots[t]
        /\ \A ix \in DOMAIN tree[t] : ~tree[t][ix].corner

\* C7: errPlannerFailed is reported exactly when the loop ends by its
\* condition, after exactly max(PlanIter, 0) iterations, with both non-empty
\* trees; with PlanIter <= 0 no tree has been touched.
C7_PlannerFailed ==
    (rpc = "done" /\ ~planOptsNil) =>
       /\ Sol.err = "PlannerFailed" =>
             /\ iter = Max(PlanIter, 0)
             /\ Sol.maps /\ Sol.steps = <<>>
             /\ \A t \in TreeNames : Len(tree[t]) > 0
             /\ PlanIter <= 0 => TreesUntouched
       /\ (iter >= PlanIter /\ Sol.err # "InterpolationFailure")
             => Sol.err = "PlannerFailed"
       /\ iter <= Max(PlanIter, 0)

\* two full iterations without a connection
C7_Witness ==
    /\ rpc = "done" /\ Sol.err = "PlannerFailed" /\ PlanIter = 2 /\ iter = 2
    /\ ~ctxDone
    /\ Len(tree["goal"]) > roots["goal"]

\* C8: an IK solver error or a linearization error raised inside constrainNear
\* becomes the error plan returns (the caller's context not being done).
C8_InnerErrorPropagated ==
    (ppc = "returned" /\ innerErr # "none" /\ ~ctxDone) => solution.err = innerErr

\* C10, state part: map1 and map2 name the two different trees, and each
\* running extend works on the tree of its own side.
C10_MapsDisjoint ==
    /\ map1 # map2
    /\ {map1, map2} = TreeNames
    /\ \A k \in 1 .. 2 : ext[k].pc # "idle" => ext[k].tree = MapOf(k)
    /\ (ext[1].pc # "idle" /\ ext[2].pc # "idle") => ext[1].tree # ext[2].tree

\* C10, step part: a step that adds a node to a tree is a step of the one
\* running extend whose tree it is.
C10_SingleWriter ==
    \A t \in TreeNames :
        (Len(tree'[t]) # Len(tree[t])) =>
            \E k \in 1 .. 2 :
                /\ ext[k].pc = "near" /\ ext[k].tree = t /\ ext'[k] # ext[k]
                /\ ext[3 - k].pc # "idle" => ext[3 - k].tree # t
                /\ ext'[3 - k] = ext[3 - k]

\* C10: in every tryExtend the two extends are given different trees, before
\* and after any number of swaps, and each tree is written only by the extend
\* that targets it.
C10_DisjointTrees == [](C10_MapsDisjoint) /\ [][C10_SingleWriter]_vars

\* after a swap, the first extend has added a node to the goal tree while the
\* second extend is still running on the start tree
C10_Witness ==
    /\ map1 = "goal" /\ iter = 1
    /\ ext[1].pc = "top" /\ ext[1].tree = "goal" /\ ext[1].near > roots["goal"]
    /\ ext[2].pc # "idle" /\ ext[2].tree = "start"

\* the scheduler keeps running some runnable goroutine, and the caller's
\* deadline passes if nothing else can happen
SpecFair == Init /\ [][Next]_vars /\ WF_vars(Next)

(***************************************************************************)
(* Two runs of plan on the same inputs.  The solver and the sampler are    *)
(* fixed functions (env = "det"), the context is never cancelled, and what *)
(* remains free is the order in which the tree maps are iterated and the   *)
(* scheduling of the goroutines.                                           *)
(***************************************************************************)
\* the trees (configurations and parents) and the result of a finished run
Summary ==
    [trees |-> [t \in TreeNames |->
                   [ix \in DOMAIN tree[t] |-> <<tree[t][ix].q, tree[t][ix].parent>>]],
     err |-> solution.err,
     path |-> [j \in DOMAIN solution.steps |-> Q(solution.steps[j])]]

\* plan is called again with the same seed, options, world, start and goal
Rerun ==
    /\ env = "det"
    /\ ppc = "returned"
    /\ run1 = <<>>
    /\ run1' = <<Summary>>
    /\ tree' = [t \in AllTrees |->
                  IF t \notin TreeNames THEN tree[t]
                  ELSE [ix \in 1 .. roots[t] |-> [tree[t][ix] EXCEPT !.corner = FALSE]]]
    /\ ctxDone' = FALSE
    /\ rpc' = "unstarted"
    /\ iter' = 0
    /\ second' = FALSE
    /\ target' = 0
    /\ map1' = "start"
    /\ map2' = "goal"
    /\ nearest' = [k \in 1 .. 2 |-> NoNode]
    /\ reached' = [k \in 1 .. 2 |-> NoNode]
    /\ nn' = [k \in 1 .. 2 |-> "idle"]
    /\ ext' = [k \in Extends |-> IdleExt]
    /\ mchan' = [k \in Extends |-> <<>>]
    /\ mclosed' = FALSE
    /\ solutionChan' = <<>>
    /\ solClosed' = FALSE
    /\ sent' = 0
    /\ randCount' = 0
    /\ ppc' = "init"
    /\ solution' = Pending
    /\ innerErr' = "none"
    /\ logged' = <<>>
    /\ UNCHANGED <<blocked, roots, env, initMaps, planOptsNil, PlanIter, algQstep, qslices, made,
                   smoothVars, appVars, otherVars>>

NextDet ==
    \/ PlanInit
    \/ RStart
    \/ RLoopTop
    \/ RRecvNN1
    \/ RRecvNN2
    \/ RRecvE1
    \/ RRecvE2
    \/ \E k \in 1 .. 2 : NNRun(k)
    \/ \E k \in 1 .. 2 : ExtTop(k)
    \/ \E k \in 1 .. 2 : ExtNear(k)
    \/ PlanRecv
    \/ Rerun

SpecDet == InitDet /\ [][NextDet]_vars

\* C9: two runs of plan with the same master seed, options, frame system,
\* constraint handler, seed and goal end with identical trees and identical
\* results, whatever the scheduling and the iteration order of the tree maps.
C9_SameSeedSameResult ==
    (ppc = "returned" /\ run1 # <<>>) => Summary = run1[1]

(***************************************************************************)
(* smoothPath (lines 416-481).  A path node is [id, q, corner]: nodes are  *)
(* identified by reference, so every node has an identity of its own.      *)
(***************************************************************************)
\* the largest SmoothIter option explored
MaxSmoothIter == 2

\* the planner variables smoothPath leaves alone
runnerVars == <<blocked, roots, env, initMaps, planOptsNil, PlanIter, rpc, iter, second, target,
                map1, map2, nearest, reached, nn, mclosed, solutionChan, solClosed,
                sent, ppc, solution, innerErr, algQstep, run1, made, logged>>

\* the paths handed to smoothPath, as configurations, and their corner nodes
CandidatePaths ==
    { <<Cfg(0, 0), Cfg(1, 1), Cfg(2, 1), Cfg(2, 0)>>,
      <<Cfg(2, 0), Cfg(2, 1), Cfg(1, 1), Cfg(0, 0)>>,
      <<Cfg(0, 0), Cfg(0, 1), Cfg(0, 2), Cfg(1, 2), Cfg(2, 1)>>,
      <<Cfg(0, 0), Cfg(0, 1), Cfg(0, 2)>> }

CandidateCorners == {{}, {2, 3}, {3, 4}}

PathNodes(p, cs) == [ix \in 1 .. Len(p) |-> [id |-> ix, q |-> p[ix], corner |-> ix \in cs]]

\* every pair of consecutive nodes of a path is a valid segment
PathValid(steps) ==
    \A ix \in 1 .. (Len(steps) - 1) : SegmentValid(steps[ix].q, steps[ix + 1].q)

\* lines 435-441: the walk of j from i + 1, with the corners hit on the way
\* (indices from 1: the loop condition j < len(inputSteps) - 1 is j < Len)
RECURSIVE ScanCorners(_, _, _, _, _)
ScanCorners(steps, num, j, cornersPassed, hit) ==
    IF (cornersPassed # num \/ ~steps[j].corner) /\ j < Len(steps)
    THEN LET c == cornersPassed < num /\ steps[j + 1].corner
         IN ScanCorners(steps, num, j + 1,
                        IF c THEN cornersPassed + 1 ELSE cornersPassed,
                        IF c THEN hit \cup {j + 1} ELSE hit)
    ELSE [j |-> j, hit |-> hit]

\* a variant that leaves the corner flags of hitCorners as they are
ClearedNone(steps, hit) == steps

\* lines 463-465: the corner flags of hitCorners are cleared
Cleared(steps, hit) ==
    [ix \in 1 .. Len(steps) |->
        IF ix \in hit THEN [steps[ix] EXCEPT !.corner = FALSE] ELSE steps[ix]]

\* lines 467 and 474: the nodes inputSteps[i] .. inputSteps[j-1] are in
\* neither inputSteps[:i] nor inputSteps[j+1:], nor in the chain of new nodes
\* that ends at inputSteps[j]; they keep the flags line 464 left them
Dropped(steps, i, j, hit) == {Cleared(steps, hit)[ix] : ix \in i .. (j - 1)}

\* lines 463-476: the corner flags of hitCorners are cleared, the new path is
\* inputSteps[:i], then reached and its parent chain in shortcutGoal (which
\* ends at jSol), then inputSteps[j+1:]; the two ends of the chain are corners
Splice(steps, i, j, hit, r) ==
    LET cleared == Cleared(steps, hit)
        chain == Chain("shortcut", r[2])
        chainNodes == [n \in 1 .. Len(chain) |->
                          IF chain[n][2] = 1 THEN cleared[j]
                          ELSE [id |-> nextId + chain[n][2], q |-> Q(chain[n]),
                                corner |-> FALSE]]
        front == SubSeq(cleared, 1, i - 1) \o chainNodes
        marked == [ix \in 1 .. Len(front) |->
                      IF ix = i \/ ix = Len(front)
                      THEN [front[ix] EXCEPT !.corner = TRUE] ELSE front[ix]]
    IN marked \o SubSeq(cleared, j + 1, Len(steps))

\* a variant in which i may be the second-to-last node
StartIndicesToLast(steps) == 1 .. (Len(steps) - 1)

\* line 431: the values of i := mp.randseed.Intn(len(inputSteps) - 2), as
\* indices from 1
StartIndices(steps) == 1 .. (Len(steps) - 2)

\* a variant that splices whatever the shortcut reached
SpliceAlways(dist) == TRUE

\* lines 458-462: the shortcut reached inputSteps[i]
SpliceWanted(dist) == dist < InputIdentDist

\* smoothPath(ctx, inputSteps) is called with the path p, whose corners are
\* cs, and SmoothIter = sm, on a planner in the world w whose plan is at pp
SmoothCall(w, e, pp, p, cs, sm) ==
    /\ InitPlanner(w, e, pp)
    /\ initMaps = "maps"
    /\ PlanIter = 0
    /\ AppIdle
    /\ OtherIdle
    /\ PathValid(PathNodes(p, cs))
    /\ spc = "start"
    /\ inputSteps = PathNodes(p, cs)
    /\ SmoothIter = sm
    /\ toIter = 0
    /\ numCornersToPass = 0
    /\ smoothIter = 0
    /\ iIx = 0
    /\ jIx = 0
    /\ hitCorners = {}
    /\ nextId = Len(p)
    /\ offPath = {}

\* smoothPath is called on a planner the constructor returned
InitSmooth ==
    \E w \in Worlds, p \in CandidatePaths, cs \in CandidateCorners,
       sm \in {0, MaxSmoothIter}, e1 \in BOOLEAN, e2 \in BOOLEAN :
        /\ SmoothCall(w, "free", "init", p, cs, sm)
        /\ made = newCBiRRTMotionPlanner(planOptsNil, e1, e2)

\* lines 417-422
SmoothStart ==
    /\ spc = "start"
    /\ made[1]
    /\ toIter' = Min(Len(inputSteps) * Len(inputSteps), SmoothIter)
    /\ numCornersToPass' = 2
    /\ smoothIter' = 0
    /\ spc' = "loop"
    /\ UNCHANGED <<runnerVars, randCount, qslices, ctxDone, tree, ext, mchan, SmoothIter, inputSteps, iIx,
                   jIx, hitCorners, nextId, offPath, appVars, otherVars>>

\* lines 422-453: the two loop conditions, the cancellation check, the choice
\* of i, the walk of j, and the call of constrainedExtend on shortcutGoal
SmoothLoop ==
    /\ spc = "loop"
    /\ IF numCornersToPass <= 0
       THEN /\ spc' = "done"
            /\ UNCHANGED <<numCornersToPass, smoothIter, iIx, jIx, hitCorners, tree, ext,
                           randCount, qslices>>
       ELSE IF ~(smoothIter < toIter \div 2 /\ Len(inputSteps) > 3)
       THEN /\ numCornersToPass' = numCornersToPass - 1
            /\ smoothIter' = 0
            /\ UNCHANGED <<spc, iIx, jIx, hitCorners, tree, ext, randCount, qslices>>
       ELSE IF ctxDone
       THEN /\ spc' = "done"
            /\ UNCHANGED <<numCornersToPass, smoothIter, iIx, jIx, hitCorners, tree, ext,
                           randCount, qslices>>
       ELSE \E i \in StartIndices(inputSteps) :
               LET sc == ScanCorners(inputSteps, numCornersToPass, i + 1, 0, {})
               IN /\ randCount' = randCount + 1
                  /\ IF sc.hit = {}
                     THEN /\ smoothIter' = smoothIter + 1
                          /\ UNCHANGED <<spc, numCornersToPass, iIx, jIx, hitCorners, tree,
                                         ext, qslices>>
                     ELSE /\ iIx' = i
                          /\ jIx' = sc.j
                          /\ hitCorners' = sc.hit
                          /\ tree' = [tree EXCEPT
                                        !["shortcut"] = RootTree(<<inputSteps[sc.j].q>>)]
                          /\ ext' = [ext EXCEPT ![3] =
                                        [StartExtend(3, "shortcut", <<"shortcut", 1>>,
                                                     inputSteps[i].q)
                                           EXCEPT !.rng = "mp.randseed"]]
                          /\ qslices' = deepCopyQstep(3, algQstep, qslices).mem
                          /\ spc' = "recv"
                          /\ UNCHANGED <<numCornersToPass, smoothIter>>
    /\ UNCHANGED <<runnerVars, ctxDone, mchan, SmoothIter, inputSteps, toIter, nextId,
                   offPath, appVars, otherVars>>

\* lines 454-477: reached := <-schan, the distance to inputSteps[i], the splice
SmoothRecv ==
    /\ spc = "recv"
    /\ mchan[3] # <<>>
    /\ LET r == Head(mchan[3])
       IN /\ inputSteps' =
                IF SpliceWanted(configurationDistanceFunc(inputSteps[iIx].q, Q(r)))
                THEN Splice(inputSteps, iIx, jIx, hitCorners, r)
                ELSE inputSteps
          /\ offPath' =
                IF SpliceWanted(configurationDistanceFunc(inputSteps[iIx].q, Q(r)))
                THEN offPath \cup Dropped(inputSteps, iIx, jIx, hitCorners)
                ELSE offPath
          /\ nextId' = nextId + Len(tree["shortcut"])
    /\ mchan' = [mchan EXCEPT ![3] = Tail(mchan[3])]
    /\ smoothIter' = smoothIter + 1
    /\ spc' = "loop"
    /\ UNCHANGED <<runnerVars, randCount, qslices, ctxDone, tree, ext, SmoothIter, toIter, numCornersToPass,
                   iIx, jIx, hitCorners, appVars, otherVars>>

\* the caller cancels the context while smoothPath runs
SmoothCancel ==
    /\ env = "free"
    /\ ~ctxDone
    /\ spc \in {"start", "loop", "recv"}
    /\ ctxDone' = TRUE
    /\ UNCHANGED <<runnerVars, randCount, qslices, tree, ext, mchan, smoothVars, appVars, otherVars>>

NextSmooth ==
    \/ SmoothStart
    \/ SmoothLoop
    \/ \E k \in {3} : ExtTop(k)
    \/ \E k \in {3} : ExtNear(k)
    \/ SmoothRecv
    \/ SmoothCancel

SpecSmooth == InitSmooth /\ [][NextSmooth]_vars

(***************************************************************************)
(* The callers of constrainedExtend: a call of plan, whose runner starts   *)
(* two extends per tryExtend, or a call of smoothPath, which runs one on   *)
(* its own thread.  One of the smoothPath calls has a deterministic solver *)
(* and two blocked configurations next to the target of its extend: the    *)
(* step from either of two configurations, both as far from the target as  *)
(* each other, ends on a blocked one, for which the solver answers the     *)
(* other configuration, so that the extend inserts a node in every         *)
(* iteration until maxExtendIter.                                          *)
(***************************************************************************)
\* the world of that call and its path; the corners are its nodes 3 and 4
LongWorld == [blocked |-> {Cfg(1, 2), Cfg(2, 1)}, starts |-> <<Cfg(2, 2)>>,
              goals |-> <<Cfg(0, 1)>>, solutions |-> {}]

LongPath == <<Cfg(2, 2), Cfg(1, 1), Cfg(0, 0), Cfg(0, 1)>>

\* the path of the other smoothPath calls; the corners are its nodes 2 and 3
ShortPath == <<Cfg(0, 0), Cfg(1, 1), Cfg(2, 1), Cfg(2, 0)>>

\* plan is called with PlanIter = 1, or smoothPath is called while no plan
\* runs: on the short path in the world without blocked configurations, with
\* a context that can be cancelled, or on the long one
InitExtend ==
    \/ \E w \in Worlds :
          /\ InitWith(w, "free")
          /\ initMaps = "maps"
          /\ PlanIter = 1
          /\ Made /\ SmoothIdle /\ AppIdle /\ OtherIdle
    \/ \E w \in {x \in Worlds : x.blocked = {}} :
          /\ SmoothCall(w, "free", "idle", ShortPath, {2, 3}, MaxSmoothIter)
          /\ Made
    \/ /\ SmoothCall(LongWorld, "det", "idle", LongPath, {3, 4}, MaxSmoothIter)
       /\ Made

NextExtend == Next \/ NextSmooth

SpecExtend == InitExtend /\ [][NextExtend]_vars /\ WF_vars(NextExtend)

(***************************************************************************)
(* Claims about smoothPath and the step doubling of constrainedExtend.     *)
(***************************************************************************)
\* C13: after any number of smoothPath attempts on a path whose consecutive
\* segments were all valid, every pair of consecutive nodes of the path is
\* still a valid segment at Resolution, the ends of a splice included.
C13_SmoothedPathValid == PathValid(inputSteps)

\* the same for the attempts whose shortcut tree has only valid edges
C13_ValidWhenShortcutEdgesValid ==
    (\A ix \in 2 .. Len(tree["shortcut"]) :
        SegmentValid(NodeQ("shortcut", tree["shortcut"][ix].parent),
                     NodeQ("shortcut", ix)))
       => \A ix \in 1 .. (Len(inputSteps) - 1) :
             (inputSteps[ix].id > nextId - Len(tree["shortcut"])
                /\ inputSteps[ix].id <= nextId /\ spc = "loop")
                => SegmentValid(inputSteps[ix].q, inputSteps[ix + 1].q)

\* C14: a splice leaves the nodes inputSteps[0..i] and the nodes after
\* inputSteps[j] the same nodes in the same order, so the first and the last
\* node of the path never change.
C14_SpliceKeepsEnds ==
    [][(spc = "recv" /\ inputSteps' # inputSteps)
          => /\ \A ix \in 1 .. iIx : inputSteps'[ix].id = inputSteps[ix].id
             /\ \A d \in 0 .. (Len(inputSteps) - jIx - 1) :
                   inputSteps'[Len(inputSteps') - d].id
                      = inputSteps[Len(inputSteps) - d].id
             /\ inputSteps'[1].id = inputSteps[1].id
             /\ Last(inputSteps').id = Last(inputSteps).id]_vars

\* what the splice does keep: the nodes before inputSteps[i], the node
\* inputSteps[j] and the nodes after it
C14_SpliceKeepsOutside ==
    [][(spc = "recv" /\ inputSteps' # inputSteps)
          => /\ \A ix \in 1 .. (iIx - 1) : inputSteps'[ix].id = inputSteps[ix].id
             /\ \A d \in 0 .. (Len(inputSteps) - jIx) :
                   inputSteps'[Len(inputSteps') - d].id
                      = inputSteps[Len(inputSteps) - d].id
             /\ inputSteps'[iIx].q = inputSteps[iIx].q]_vars

\* C20: after the first projection that lands within InputIdentDist^3 of
\* oldNear, the step of the next fixedStepInterpolation is twice the original
\* qstep; after a following successful step the original qstep is used again.
C20_DoubledStepUsed ==
    \A k \in Extends :
        ext[k].pc = "near" =>
            ext[k].newNear =
                fixedStepInterpolation(NodeQ(ext[k].tree, ext[k].oldNear), ext[k].target,
                                       IF ext[k].doubled THEN 2 * qstepUnit
                                       ELSE qstepUnit)

(***************************************************************************)
(* Claims about the concurrency, the cancellation and the size of a run.   *)
(***************************************************************************)
Running(k) == ext[k].pc \in {"top", "near"}

\* C11, state part: while an extend of tryExtend is running, no nearest
\* neighbour search is running and the runner is waiting for a reached node.
C11_ExtendsRunAlone ==
    \A k \in 1 .. 2 :
        Running(k) => /\ \A m \in 1 .. 2 : nn[m] # "run"
                      /\ rpc \in {"recvE1", "recvE2"}

\* C11, step part: a nearest neighbour search reads its tree, and the runner
\* reads or changes a tree, a corner flag or a reached node, only in steps
\* taken while no extend of tryExtend is running.
C11_TreeAccessOutsideExtends ==
    ((\E m \in 1 .. 2 : nn[m] = "run" /\ nn'[m] # "run")
        \/ (rpc' # rpc /\ rpc # "recvE1")
        \/ (\E t \in TreeNames : Len(tree'[t]) = Len(tree[t]) /\ tree'[t] # tree[t]))
       => \A k \in 1 .. 2 : ~Running(k)

\* C11: no nearest neighbour search reads a tree, and the runner neither reads
\* nor changes a tree or a corner flag, while an extend is writing to it.
C11_NoAccessWhileExtending ==
    [](C11_ExtendsRunAlone) /\ [][C11_TreeAccessOutsideExtends]_vars

\* in the second round the runner waits while both extends are running
C11_Witness ==
    /\ second /\ rpc = "recvE1"
    /\ ext[1].pc = "near" /\ ext[2].pc = "near"
    /\ Len(tree["start"]) > roots["start"]

\* C12: a run during which the cancellation signal fired reports a
\* cancellation or timeout error, not a path.
C12_CancelledRunReportsNoPath ==
    (rpc = "done" /\ ctxDone) => Sol.err # "none"

\* C15 as stated: the nodes inserted into both trees number at most
\* PlanIter x maxExtendIter.
C15_InsertedAtMostPlanIterExtendIter ==
    Cardinality(Inserted) <= Max(PlanIter, 0) * maxExtendIter

\* C15, the bound read off the loops: every constrainedExtend call inserts at
\* most maxExtendIter nodes and an outer iteration makes at most four calls,
\* so the nodes inserted number at most 4 x PlanIter x maxExtendIter.
C15_InsertedAtMostFourTimes ==
    /\ Cardinality(Inserted) <= randCount * maxExtendIter
    /\ randCount <= 4 * Max(PlanIter, 0)
    /\ Cardinality(Inserted) <= 4 * Max(PlanIter, 0) * maxExtendIter
    /\ \A k \in 1 .. 2 : Running(k) => ext[k].i <= maxExtendIter

\* the position of the runner, increasing along its code
RunnerRank ==
    IF rpc \in {"unstarted", "start"} THEN 0
    ELSE IF rpc = "done" THEN 1 + (Max(PlanIter, 0) + 1) * 10
    ELSE 1 + iter * 10 + (IF second /\ rpc # "loopTop" THEN 5 ELSE 0)
           + (CASE rpc = "loopTop" -> 0 [] rpc = "recvNN1" -> 1 [] rpc = "recvNN2" -> 2
                [] rpc = "recvE1" -> 3 [] rpc = "recvE2" -> 4)

\* the progress of the goroutines the runner is waiting for
GoRank ==
    LET nnRank(m) == IF nn[m] = "run" THEN 0 ELSE 1
        extRank(k) == IF Running(k)
                      THEN 2 * ext[k].i + (IF ext[k].pc = "near" THEN 1 ELSE 0)
                      ELSE 2 * maxExtendIter + 2
    IN nnRank(1) + nnRank(2) + extRank(1) + extRank(2)

Rank ==
    3 * (RunnerRank * (4 * maxExtendIter + 7) + GoRank)
       + (CASE ppc = "init" -> 0 [] ppc = "wait" -> 1 [] ppc = "returned" -> 2)

Outcomes == {"none", "Timeout", "ContextError", "InterpolationFailure", "SampleFailure",
             "NoPlannerOptions", "PlannerFailed", "InitFailure"}

\* C16, state part: the caps on the three loops, and the single outcome
C16_Bounded ==
    /\ iter <= Max(PlanIter, 0)
    /\ randCount <= 4 * Max(PlanIter, 0)
    /\ \A k \in 1 .. 2 :
          Running(k) =>
             /\ ext[k].i <= maxExtendIter
             /\ ext[k].pc = "near" =>
                   \A o \in constrainNear(ctxDone, NodeQ(ext[k].tree, ext[k].oldNear),
                                          ext[k].newNear) : o.iters <= maxNearIter
    /\ Rank <= 3 * ((2 + (Max(PlanIter, 0) + 1) * 10) * (4 * maxExtendIter + 7)) + 2
    /\ rpc = "done" => (sent = 1 /\ Sol.err \in Outcomes)

\* C16, step part: every step of the planner other than the cancellation
\* moves it forward
C16_Progress == ctxDone' = ctxDone => Rank' > Rank

\* C16: every plan call terminates: at most PlanIter outer iterations of at
\* most two tryExtend rounds, at most maxExtendIter iterations per
\* constrainedExtend and maxNearIter per constrainNear, and the run ends in
\* exactly one of path, cancellation error, propagated error, PlannerFailed.
C16_PlanTerminates ==
    /\ [](C16_Bounded)
    /\ [][C16_Progress]_vars
    /\ <>(ppc = "returned" /\ rpc \in {"done", "unstarted"} /\ solution.err \in Outcomes)

\* a run that used its whole budget: two iterations of two rounds each
C16_Witness ==
    /\ ppc = "returned" /\ solution.err = "PlannerFailed"
    /\ PlanIter = 2 /\ iter = 2 /\ randCount = 8

\* the runner's nil-options exit: one solution, no goroutine, trees as built
NilOptionsExit ==
    (planOptsNil /\ rpc = "start" /\ rpc' # rpc)
       => /\ rpc' = "done"
          /\ solutionChan' = <<Solution("NoPlannerOptions", <<>>, FALSE)>>
          /\ sent' = 1
          /\ tree' = tree
          /\ nn' = nn /\ ext' = ext /\ randCount' = randCount

\* the constructor refuses nil options, whatever else would fail
CtorRefusesNil ==
    /\ \A e1 \in BOOLEAN, e2 \in BOOLEAN :
          newCBiRRTMotionPlanner(TRUE, e1, e2) = <<FALSE, "NoPlannerOptions">>
    /\ planOptsNil => made = <<FALSE, "NoPlannerOptions">>
    /\ (planOptsNil /\ rpc = "done") => (Sol.err = "NoPlannerOptions" /\ TreesUntouched)

\* C17 as stated: with nil options the constructor returns
\* errNoPlannerOptions and no planner, and the runner sends
\* errNoPlannerOptions as its single result without extending or reading
\* either tree.
C17_NilOptionsNoTreeRead ==
    /\ [](CtorRefusesNil /\ (planOptsNil => logged = <<>>))
    /\ [][NilOptionsExit]_vars

\* C17 amended: the same, except that the runner does read the sizes of both
\* trees for its first debug line before it checks the options; it changes
\* neither tree and starts no goroutine.
C17_NilOptions ==
    /\ [](CtorRefusesNil)
    /\ [][NilOptionsExit]_vars
    /\ [][(rpc = "start" /\ rpc' # rpc)
             => logged' = <<Len(tree["start"]), Len(tree["goal"])>>]_vars

\* plan received errNoPlannerOptions from a runner without options
C17_Witness ==
    /\ planOptsNil /\ ppc = "returned" /\ solution.err = "NoPlannerOptions"
    /\ logged # <<>>

(***************************************************************************)
(* Package app: CreateViamClientWithOptions and the ViamClient getters.    *)
(* Strings are strings; strings.HasPrefix, strings.HasSuffix and url.Parse *)
(* are computed character by character.                                    *)
(***************************************************************************)

\* strings.HasPrefix
HasPrefix(s, prefix) ==
    Len(s) >= Len(prefix) /\ SubSeq(s, 1, Len(prefix)) = prefix

\* strings.HasSuffix
HasSuffix(s, suffix) ==
    Len(s) >= Len(suffix) /\ SubSeq(s, Len(s) - Len(suffix) + 1, Len(s)) = suffix

\* the character of s at position i (from 1)
CharAt(s, i) == SubSeq(s, i, i)

\* the first position from i on at which s has one of the characters cs;
\* Len(s) + 1 when there is none
RECURSIVE IndexAny(_, _, _)
IndexAny(s, cs, i) ==
    IF i > Len(s) THEN Len(s) + 1
    ELSE IF CharAt(s, i) \in cs THEN i
    ELSE IndexAny(s, cs, i + 1)

\* the last position at which s has the character c; 0 when there is none
RECURSIVE LastIndex(_, _, _)
LastIndex(s, c, i) ==
    IF i < 1 THEN 0
    ELSE IF CharAt(s, i) = c THEN i
    ELSE LastIndex(s, c, i - 1)

Digits == {"0", "1", "2", "3", "4", "5", "6", "7", "8", "9"}

\* net/url validOptionalPort: empty, or a colon followed by digits only
ValidOptionalPort(port) ==
    \/ port = ""
    \/ /\ CharAt(port, 1) = ":"
       /\ \A i \in 2 .. Len(port) : CharAt(port, i) \in Digits

\* net/url Parse on a string that starts with http:// or https:// and has no
\* user information, no bracketed address and no percent escape: the fragment
\* and the query are cut off, the authority runs up to the first slash, a
\* space in the host or a port that is not a number is an error
Parse(rawURL) ==
    LET hostFrom == IF HasPrefix(rawURL, "https://") THEN 9 ELSE 8
        stop == IndexAny(rawURL, {"/", "?", "#"}, hostFrom)
        host == SubSeq(rawURL, hostFrom, stop - 1)
        colon == LastIndex(host, ":", Len(host))
        port == IF colon = 0 THEN "" ELSE SubSeq(host, colon, Len(host))
    IN IF IndexAny(host, {" "}, 1) <= Len(host)
       THEN [Host |-> "", err |-> "invalid character in host name"]
       ELSE IF ~ValidOptionalPort(port)
       THEN [Host |-> "", err |-> "invalid port after host"]
       ELSE [Host |-> host, err |-> "none"]

\* what a call returns: no client and an error, without a dial
Refused(e, url) == [client |-> FALSE, err |-> e, baseURL |-> url, dials |-> <<>>]

\* one call of dialDirectGRPC
Dial(host, opts) == [host |-> host, entity |-> opts.Entity, payload |-> opts.Payload]

\* CreateViamClientWithOptions with the dial before the credentials check
CreateDialingFirst(opts, derr) ==
    LET u1 == IF opts.BaseURL = "" THEN "https://app.viam.com" ELSE opts.BaseURL
        u2 == IF ~HasSuffix(u1, ":443") THEN u1 \o ":443" ELSE u1
        serviceHost == Parse(u2)
    IN IF /\ opts.BaseURL # ""
          /\ ~HasPrefix(opts.BaseURL, "http://")
          /\ ~HasPrefix(opts.BaseURL, "https://")
       THEN Refused("use valid URL", opts.BaseURL)
       ELSE IF serviceHost.err # "none" THEN Refused(serviceHost.err, u2)
       ELSE IF derr # "none"
       THEN [client |-> FALSE, err |-> derr, baseURL |-> u2,
             dials |-> <<Dial(serviceHost.Host, opts)>>]
       ELSE IF opts.Payload = "" \/ opts.Entity = ""
       THEN [client |-> FALSE, err |-> "entity and payload cannot be empty",
             baseURL |-> u2, dials |-> <<Dial(serviceHost.Host, opts)>>]
       ELSE [client |-> TRUE, err |-> "none", baseURL |-> u2,
             dials |-> <<Dial(serviceHost.Host, opts)>>]

\* CreateViamClientWithOptions: the client (or none), the error, the local
\* options.BaseURL at the return, and the calls of dialDirectGRPC it made
CreateViamClientWithOptions(opts, derr) ==
    LET u1 == IF opts.BaseURL = "" THEN "https://app.viam.com" ELSE opts.BaseURL
        u2 == IF ~HasSuffix(u1, ":443") THEN u1 \o ":443" ELSE u1
        serviceHost == Parse(u2)
    IN IF /\ opts.BaseURL # ""
          /\ ~HasPrefix(opts.BaseURL, "http://")
          /\ ~HasPrefix(opts.BaseURL, "https://")
       THEN Refused("use valid URL", opts.BaseURL)
       ELSE IF serviceHost.err # "none" THEN Refused(serviceHost.err, u2)
       ELSE IF opts.Payload = "" \/ opts.Entity = ""
       THEN Refused("entity and payload cannot be empty", u2)
       ELSE IF derr # "none"
       THEN [client |-> FALSE, err |-> derr, baseURL |-> u2,
             dials |-> <<Dial(serviceHost.Host, opts)>>]
       ELSE [client |-> TRUE, err |-> "none", baseURL |-> u2,
             dials |-> <<Dial(serviceHost.Host, opts)>>]

\* lines 101-105: options.Entity and options.Credentials are overwritten
WithAPIKeyOptions(opts, apiKey, apiKeyID) ==
    [opts EXCEPT !.Entity = apiKeyID, !.Payload = apiKey]

\* lines 98-107
CreateViamClientWithAPIKey(opts, apiKey, apiKeyID, derr) ==
    CreateViamClientWithOptions(WithAPIKeyOptions(opts, apiKey, apiKeyID), derr)

\* &Options{}
NoOptions == [BaseURL |-> "", Entity |-> "", Payload |-> ""]

\* the error of line 121
EnvVarsError(apiKey, apiKeyID) ==
    "api key (" \o apiKey \o ") and/or api key ID (" \o apiKeyID
       \o ") were set improperly, cannot be empty"

\* lines 114-116: the options CreateViamClientFromEnvVars works on
EnvVarsOptions(optsNil, opts) == IF optsNil THEN NoOptions ELSE opts

\* lines 113-125, apiKey and apiKeyID being the values of VIAM_API_KEY and
\* VIAM_API_KEY_ID
CreateViamClientFromEnvVars(optsNil, opts, apiKey, apiKeyID, derr) ==
    IF apiKey = "" \/ apiKeyID = ""
    THEN Refused(EnvVarsError(apiKey, apiKeyID), EnvVarsOptions(optsNil, opts).BaseURL)
    ELSE CreateViamClientWithAPIKey(EnvVarsOptions(optsNil, opts), apiKey, apiKeyID, derr)

\* the values of Options.BaseURL tried
BaseURLs ==
    { "", "https://app.viam.com", "https://app.viam.com:443", "http://localhost:8080",
      "https://app.viam.com/robots", "http://my host", "https://host:port/x",
      "app.viam.com", "HTTPS://app.viam.com", "grpc://app.viam.com:443" }

\* the values of Options.Entity and of Options.Credentials.Payload tried
Entities == {"", "key-id"}
Payloads == {"", "key"}

\* what dialDirectGRPC answers when it is called
DialErrors == {"none", "context deadline exceeded", "connection refused"}

\* the variables package app leaves alone
plannerVarsOnly == <<runnerVars, randCount, qslices, ctxDone, tree, ext, mchan, smoothVars>>

plannerVars == <<plannerVarsOnly, otherVars>>

\* a caller about to call CreateViamClientWithOptions
InitApp ==
    /\ InitWith(CHOOSE w \in Worlds : TRUE, "free")
    /\ initMaps = "maps"
    /\ planOptsNil = FALSE
    /\ PlanIter = 0
    /\ Made
    /\ SmoothIdle
    /\ OtherIdle
    /\ apc = "start"
    /\ options \in [BaseURL : BaseURLs, Entity : Entities, Payload : Payloads]
    /\ dialErr \in DialErrors
    /\ dialCalls = <<>>
    /\ created = NotCreated
    /\ sub = NewViamClient
    /\ got = <<"none", 0>>
    /\ nextInst = 0

\* the call of CreateViamClientWithOptions and its return
CallCreate ==
    /\ apc = "start"
    /\ LET r == CreateViamClientWithOptions(options, dialErr)
       IN /\ created' = [client |-> r.client, err |-> r.err, baseURL |-> r.baseURL,
                         called |-> TRUE, opts |-> options]
          /\ dialCalls' = dialCalls \o r.dials
          /\ apc' = IF r.client THEN "client" ELSE "failed"
          /\ sub' = NewViamClient
    /\ UNCHANGED <<plannerVars, options, dialErr, got, nextInst>>

\* the call of CreateViamClientWithAPIKey and its return
CallCreateWithAPIKey ==
    /\ apc = "start"
    /\ \E apiKey \in Payloads, apiKeyID \in Entities :
          LET r == CreateViamClientWithAPIKey(options, apiKey, apiKeyID, dialErr)
          IN /\ created' = [client |-> r.client, err |-> r.err, baseURL |-> r.baseURL,
                            called |-> TRUE,
                            opts |-> WithAPIKeyOptions(options, apiKey, apiKeyID)]
             /\ dialCalls' = dialCalls \o r.dials
             /\ apc' = IF r.client THEN "client" ELSE "failed"
             /\ sub' = NewViamClient
    /\ UNCHANGED <<plannerVars, options, dialErr, got, nextInst>>

\* the call of CreateViamClientFromEnvVars, with options or with nil, and its
\* return
CallCreateFromEnvVars ==
    /\ apc = "start"
    /\ \E optsNil \in BOOLEAN, apiKey \in Payloads, apiKeyID \in Entities :
          LET r == CreateViamClientFromEnvVars(optsNil, options, apiKey, apiKeyID, dialErr)
              keysSet == apiKey # "" /\ apiKeyID # ""
              o == EnvVarsOptions(optsNil, options)
          IN /\ created' = [client |-> r.client, err |-> r.err, baseURL |-> r.baseURL,
                            called |-> keysSet,
                            opts |-> IF keysSet
                                     THEN WithAPIKeyOptions(o, apiKey, apiKeyID) ELSE o]
             /\ dialCalls' = dialCalls \o r.dials
             /\ apc' = IF r.client THEN "client" ELSE "failed"
             /\ sub' = NewViamClient
    /\ UNCHANGED <<plannerVars, options, dialErr, got, nextInst>>

\* lines 178-180: Close closes the connection; the sub-clients stay
Close ==
    /\ apc \in {"client", "closed"}
    /\ apc' = "closed"
    /\ UNCHANGED <<plannerVars, options, dialErr, dialCalls, created, sub, got, nextInst>>

\* a getter body that makes a new sub-client on every call
MemoiseAlwaysNew(g) ==
    /\ nextInst' = nextInst + 1
    /\ sub' = [sub EXCEPT ![g] = nextInst + 1]
    /\ got' = <<g, nextInst + 1>>
    /\ UNCHANGED <<plannerVars, apc, options, dialErr, dialCalls, created>>

\* the body the five getters share: return the field when it is set, else
\* set it to a new sub-client on the connection and return that
Memoise(g) ==
    /\ IF sub[g] # 0
       THEN /\ got' = <<g, sub[g]>>
            /\ UNCHANGED <<sub, nextInst>>
       ELSE /\ nextInst' = nextInst + 1
            /\ sub' = [sub EXCEPT ![g] = nextInst + 1]
            /\ got' = <<g, nextInst + 1>>
    /\ UNCHANGED <<plannerVars, apc, options, dialErr, dialCalls, created>>

\* the getters are methods of a ViamClient that was returned
AppClient ==
    /\ apc \in {"client", "closed"}
    /\ Memoise("appClient")

BillingClient ==
    /\ apc \in {"client", "closed"}
    /\ Memoise("billingClient")

DataClient ==
    /\ apc \in {"client", "closed"}
    /\ Memoise("dataClient")

MLTrainingClient ==
    /\ apc \in {"client", "closed"}
    /\ Memoise("mlTrainingClient")

ProvisioningClient ==
    /\ apc \in {"client", "closed"}
    /\ Memoise("provisioningClient")

NextApp ==
    \/ CallCreate
    \/ CallCreateWithAPIKey
    \/ CallCreateFromEnvVars
    \/ Close
    \/ AppClient
    \/ BillingClient
    \/ DataClient
    \/ MLTrainingClient
    \/ ProvisioningClient

SpecApp == InitApp /\ [][NextApp]_vars

\* the call has returned
Returned == apc \in {"client", "closed", "failed"}

\* the options the call must refuse before any dial
BadPrefix ==
    /\ created.opts.BaseURL # ""
    /\ ~HasPrefix(created.opts.BaseURL, "http://")
    /\ ~HasPrefix(created.opts.BaseURL, "https://")

NoCredentials == created.opts.Entity = "" \/ created.opts.Payload = ""

\* C18: CreateViamClientWithOptions returns an error without calling
\* dialDirectGRPC when BaseURL is non-empty and starts with neither http://
\* nor https://, or when Entity or the payload is empty; an empty BaseURL is
\* replaced by https://app.viam.com (and dialled as app.viam.com:443); a
\* client is returned only when the dial succeeded; a dial error is returned
\* unchanged with no client.
C18_CreateContract ==
    /\ ~Returned => (dialCalls = <<>> /\ created = NotCreated)
    /\ (Returned /\ ~created.called) => (dialCalls = <<>> /\ ~created.client)
    /\ (Returned /\ created.called) =>
         /\ (BadPrefix \/ NoCredentials)
               => (created.err # "none" /\ ~created.client /\ dialCalls = <<>>)
         /\ created.opts.BaseURL = ""
               => /\ HasPrefix(created.baseURL, "https://app.viam.com")
                  /\ created.baseURL = "https://app.viam.com:443"
                  /\ \A i \in 1 .. Len(dialCalls) : dialCalls[i].host = "app.viam.com:443"
         /\ created.client
               => (Len(dialCalls) = 1 /\ dialErr = "none" /\ created.err = "none")
         /\ (dialCalls # <<>> /\ dialErr # "none")
               => (created.err = dialErr /\ ~created.client)
         /\ Len(dialCalls) <= 1
         /\ created.client = (apc \in {"client", "closed"})
         /\ created.client = (created.err = "none")

\* a dial that failed on the default URL, and its error handed back
C18_Witness ==
    /\ apc = "failed"
    /\ created.called /\ created.opts = options
    /\ options.BaseURL = ""
    /\ dialCalls = <<Dial("app.viam.com:443", options)>>
    /\ dialErr = "connection refused"
    /\ created.err = "connection refused"

\* the sub-clients in use are different instances, numbered as created
SubClientsDistinct ==
    /\ \A g \in SubClients : sub[g] \in 0 .. nextInst
    /\ \A g, h \in SubClients : (g # h /\ sub[g] # 0) => sub[g] # sub[h]
    /\ nextInst = Cardinality({g \in SubClients : sub[g] # 0})
    /\ got[1] # "none" => (got[2] # 0 /\ got[2] = sub[got[1]])
    /\ apc \notin {"client", "closed"} => (nextInst = 0 /\ got = <<"none", 0>>)

\* a step of a getter: a field that is set stays as it is, at most one field
\* becomes set, and it is the field of the getter called
GetterStep ==
    /\ \A g \in SubClients : sub[g] # 0 => sub'[g] = sub[g]
    /\ \A g \in SubClients :
          sub'[g] # sub[g] => /\ got' = <<g, sub'[g]>>
                              /\ sub'[g] = nextInst + 1
                              /\ \A h \in SubClients \ {g} : sub'[h] = sub[h]
    /\ got' # got => (got'[1] \in SubClients /\ got'[2] = sub'[got'[1]]
                        /\ (sub[got'[1]] # 0 => sub' = sub))

\* C19: each getter creates its sub-client on its first call and returns that
\* same instance on every later call, and a call to one getter never creates
\* or replaces another sub-client.
C19_GettersMemoise ==
    /\ [](SubClientsDistinct)
    /\ [][GetterStep]_vars

\* all five sub-clients exist and the last call returned one made earlier
C19_Witness ==
    /\ nextInst = 5
    /\ \A g \in SubClients : sub[g] # 0
    /\ got[1] = "appClient" /\ got[2] = sub["appClient"] /\ got[2] = 2

(***************************************************************************)
(* Claims about constrainedExtend and constrainNear.                       *)
(***************************************************************************)
\* the step in which the extend k returns
ExtendReturns(k) == Running(k) /\ ~Running(k)'

\* a call sends once, in the step in which it returns, and not before
OneSendPerCall ==
    \A k \in Extends :
        /\ ExtendReturns(k) => /\ Len(mchan'[k]) = Len(mchan[k]) + 1
                               /\ ext'[k].pc = "idle"
        /\ (Running(k) /\ Running(k)') => mchan'[k] = mchan[k]

\* the channel of a running extend is empty, so its send finds room
SenderNeverBlocks == \A k \in Extends : Running(k) => mchan[k] = <<>>

\* the extend of the smoothPath call on the long path has started, from the
\* last node of the path toward the first
LongExtendStarted ==
    /\ env = "det"
    /\ ext[3].pc = "top" /\ ext[3].i = 0
    /\ ext[3].target = LongPath[1]
    /\ tree["shortcut"] = RootTree(<<LongPath[Len(LongPath)]>>)

\* an extend smoothPath called has inserted a node in each of its
\* maxExtendIter iterations, has left the loop, sent oldNear and returned
ExtendExhausted ==
    /\ ext[3].pc = "idle"
    /\ Len(tree["shortcut"]) = maxExtendIter + 1
    /\ mchan[3] = <<<<"shortcut", maxExtendIter>>>>

\* C21: every call of constrainedExtend sends exactly one node on its channel
\* before it returns, on every exit path, the one that exhausts maxExtendIter
\* included; the capacity-1 channel never blocks the sender, whether the call
\* runs in a goroutine of tryExtend or on the thread of smoothPath, and the
\* receiver in tryExtend or in smoothPath never waits forever.
C21_ExactlyOneSend ==
    /\ [](SenderNeverBlocks)
    /\ [][OneSendPerCall]_vars
    /\ []<>(rpc \notin {"recvE1", "recvE2"} /\ spc # "recv")
    /\ LongExtendStarted ~> ExtendExhausted

\* the extend smoothPath called on its own thread has sent once and returned
\* after a cancellation, and smoothPath has yet to receive
C21_Witness ==
    /\ spc = "recv" /\ ctxDone
    /\ ext[3].pc = "idle" /\ mchan[3] = <<<<"shortcut", 1>>>>

\* n is a key of its tree
IsKey(n) == n[1] \in AllTrees /\ n[2] \in DOMAIN tree[n[1]]

\* following parent pointers from n stays inside the tree and ends at a root
EndsAtRoot(n) ==
    LET c == Chain(n[1], n[2])
    IN /\ c # <<>>
       /\ \A ix \in DOMAIN c : IsKey(c[ix])
       /\ tree[n[1]][c[Len(c)][2]].parent = 0

\* the nodes a call of constrainedExtend holds or has emitted
HeldNodes ==
    {<<ext[k].tree, ext[k].near>> : k \in {m \in Extends : Running(m)}}
       \cup {<<ext[k].tree, ext[k].oldNear>> : k \in {m \in Extends : Running(m)}}
       \cup {mchan[k][1] : k \in {m \in 1 .. 2 : mchan[m] # <<>>
                                                  /\ rpc \in {"recvE1", "recvE2"}}}
       \cup {mchan[k][1] : k \in {m \in {3} : mchan[m] # <<>>}}
       \cup {reached[k] : k \in {m \in 1 .. 2 : reached[m] # NoNode}}

\* C22: when near is a key of rrtMap at the call, the node constrainedExtend
\* emits is a key of rrtMap on every exit path, and following parent pointers
\* from it is defined and ends at a root.
C22_EmittedIsKey == \A n \in HeldNodes : IsKey(n) /\ EndsAtRoot(n)

\* a reached node that the call inserted, received after a cancellation
C22_Witness ==
    /\ ctxDone
    /\ \E k \in 1 .. 2 :
          /\ reached[k] # NoNode
          /\ reached[k][2] > roots[reached[k][1]]
          /\ Len(Chain(reached[k][1], reached[k][2])) >= 2

\* the distance of node ix of the tree of extend k to the target of the call
DistToTarget(k, ix) == configurationDistanceFunc(NodeQ(ext[k].tree, ix), ext[k].target)

\* the nodes the call k has reached: the parent chain from its latest node
\* near back to the near node it was called with, as indices, latest first
RECURSIVE ReachedChain(_, _)
ReachedChain(k, ix) ==
    IF ix = ext[k].first \/ ix = 0 THEN <<ix>>
    ELSE <<ix>> \o ReachedChain(k, tree[ext[k].tree][ix].parent)

\* the node the returning call k emits
Emitted(k) == mchan'[k][Len(mchan'[k])][2]

\* C23 as stated: among the initial near node and all nodes the call inserted,
\* none is strictly closer to target than the emitted node, on every exit
\* path.
C23_EmittedIsClosest ==
    [][\A k \in 1 .. 2 :
          ExtendReturns(k) =>
             \A ix \in {ReachedChain(k, ext[k].near)[m] :
                           m \in DOMAIN ReachedChain(k, ext[k].near)} :
                DistToTarget(k, Emitted(k)) <= DistToTarget(k, ix)]_vars

\* the part of the parent chain of the call k from the emitted node back to
\* the initial near node
EmittedChain(k) == ReachedChain(k, Emitted(k))

\* along the chain of the returning call k, a child is not farther from the
\* target than its parent
ChainApproaches(k) ==
    LET c == EmittedChain(k)
    IN /\ c[Len(c)] = ext[k].first
       /\ \A m \in 1 .. (Len(c) - 1) : DistToTarget(k, c[m]) <= DistToTarget(k, c[m + 1])
       /\ DistToTarget(k, Emitted(k)) <= DistToTarget(k, ext[k].first)
       /\ Emitted(k) \in {ext[k].near, ext[k].oldNear}
       /\ DistToTarget(k, ext[k].near) > DistToTarget(k, ext[k].oldNear)
             => Emitted(k) = ext[k].oldNear

\* C24: along the parent chain from the emitted node back to the initial near
\* node the distance to target never increases toward the emitted node; the
\* emitted node is not farther from target than the initial near node; a node
\* farther from target than its parent is not emitted, its parent is.
C24_EmittedChainApproaches ==
    [][\A k \in 1 .. 2 : ExtendReturns(k) => ChainApproaches(k)]_vars

\* a call that inserted a node not closer than its parent and then emitted
\* the parent
C24_Witness ==
    \E k \in 1 .. 2 :
       /\ ~Running(k) /\ mchan[k] # <<>> /\ rpc \in {"recvE1", "recvE2"}
       /\ LET t == mchan[k][1][1]
              ix == mchan[k][1][2]
          IN /\ Len(tree[t]) > ix
             /\ tree[t][Len(tree[t])].parent = ix
             /\ configurationDistanceFunc(NodeQ(t, Len(tree[t])), target)
                   > configurationDistanceFunc(NodeQ(t, ix), target)
             /\ ~ctxDone

\* the configurations a and b are within InputIdentDist^3 of each other
NearIdentical(a, b) ==
    configurationDistanceFunc(a, b) < InputIdentDist * InputIdentDist * InputIdentDist

\* no node an extend has inserted is near-identical to its parent
NoIdenticalChild ==
    \A t \in AllTrees : \A ix \in DOMAIN tree[t] :
        tree[t][ix].parent # 0 => ~NearIdentical(NodeQ(t, tree[t][ix].parent), NodeQ(t, ix))

\* a step of the call k from line 298 on: an insertion is of a node that is
\* not near-identical to its parent oldNear; a step back to the top of the
\* loop without an insertion is the first near-identical projection, which
\* sets doubled; with doubled set, a step without an insertion returns oldNear
NearIdenticalStep(k) ==
    LET e == ext[k]
        t == e.tree
    IN (e.pc = "near" /\ ext'[k] # e) =>
          /\ Len(tree'[t]) > Len(tree[t]) =>
                /\ Len(tree'[t]) = Len(tree[t]) + 1
                /\ tree'[t][Len(tree'[t])].parent = e.oldNear
                /\ ~NearIdentical(NodeQ(t, e.oldNear), tree'[t][Len(tree'[t])].q)
                /\ ~ext'[k].doubled /\ ext'[k].pc = "top"
          /\ (Len(tree'[t]) = Len(tree[t]) /\ ext'[k].pc = "top") =>
                /\ ~e.doubled /\ ext'[k].doubled
                /\ NearIdentical(NodeQ(t, e.oldNear), ext'[k].cnRes)
                /\ ext'[k].near = e.near /\ ext'[k].oldNear = e.oldNear
          /\ (Len(tree'[t]) = Len(tree[t]) /\ e.doubled) =>
                /\ ExtendReturns(k)
                /\ Emitted(k) = e.oldNear

\* C25: constrainedExtend never inserts a node whose configuration is within
\* InputIdentDist^3 of its parent's: the first such projection inserts nothing
\* and retries, the second consecutive one makes the call emit oldNear and
\* return without inserting.
C25_NoNearIdenticalInsert ==
    /\ [](NoIdenticalChild)
    /\ [][\A k \in 1 .. 2 : NearIdenticalStep(k)]_vars

\* a call whose first projection came back to oldNear: nothing inserted,
\* doubled set, and the loop entered again
C25_Witness ==
    \E k \in 1 .. 2 :
       /\ ext[k].pc = "top" /\ ext[k].doubled /\ ext[k].i = 1
       /\ ext[k].cnRes = NodeQ(ext[k].tree, ext[k].oldNear)
       /\ Len(tree[ext[k].tree]) = roots[ext[k].tree]

\* the table of call k refers to slices of its own, neither the planner's nor
\* those of another call, and every entry of them is step
OwnSteps(k, step) ==
    \A f \in QFrames :
        /\ ext[k].qstep[f] # algQstep[f]
        /\ \A m \in Extends \ {k} : Running(m) => ext[m].qstep[f] # ext[k].qstep[f]
        /\ qslices[ext[k].qstep[f]] = StepSlice(step)

\* C26: constrainedExtend never modifies the planner's step table
\* mp.algOpts.qstep: doubling and restoring act on the copy of the call, so
\* the other extend and all later calls see the same step sizes.
C26_SharedQstepUnchanged ==
    /\ [](\A f \in QFrames : qslices[algQstep[f]] = StepSlice(qstepUnit))
    /\ [][/\ algQstep' = algQstep
          /\ \A f \in QFrames : qslices'[algQstep[f]] = qslices[algQstep[f]]]_vars
    /\ [](\A k \in 1 .. 2 :
             Running(k) => OwnSteps(k, IF ext[k].doubled THEN 2 * qstepUnit ELSE qstepUnit))

\* one call has doubled its copy while the other call runs undoubled
C26_Witness ==
    \E k \in 1 .. 2 :
       /\ Running(k) /\ ext[k].doubled /\ OwnSteps(k, 2 * StepOf(algQstep, qslices))
       /\ Running(3 - k) /\ ~ext[3 - k].doubled
       /\ OwnSteps(3 - k, StepOf(algQstep, qslices))

\* the outcomes of the constrainNear call the extend k is about to make
NearOutcomes(k) ==
    constrainNear(ctxDone, NodeQ(ext[k].tree, ext[k].oldNear), ext[k].newNear)

\* C27: in constrainNear, when the solver's solution fails the segment check
\* and the end of the first failing sub-segment is not farther than
\* InputIdentDist from target, constrainNear returns none: it does not invoke
\* the solver again and never returns a configuration afterwards.
C27_CloseFailReturnsNone ==
    \A k \in 1 .. 2 :
        ext[k].pc = "near" =>
           \A o \in NearOutcomes(k) :
              o.closeAt # 0 => (o.res = Nil /\ o.iters = o.closeAt)

\* every node of tree t that has a parent has it as a key of t
ParentsAreKeys(t) ==
    \A ix \in DOMAIN tree[t] : tree[t][ix].parent \in 0 .. Len(tree[t])

\* a step keeps every entry of tree t: its key, its configuration, its parent
EntriesKept(t) ==
    \A ix \in DOMAIN tree[t] :
        /\ ix \in DOMAIN tree'[t]
        /\ tree'[t][ix].q = tree[t][ix].q
        /\ tree'[t][ix].parent = tree[t][ix].parent

\* C28: after any sequence of constrainedExtend calls on a tree in which every
\* non-root node's parent is a key, every node with a parent still has it as
\* a key of the same tree, and no entry (in particular no root entry) has
\* been removed or had its parent changed.
C28_ParentsPresent ==
    /\ [](\A t \in TreeNames : ParentsAreKeys(t))
    /\ [][\A t \in TreeNames : EntriesKept(t)]_vars
    /\ [](\A t \in TreeNames : \A ix \in 1 .. roots[t] : tree[t][ix].parent = 0)

\* after the calls of two rounds both trees have grown, one of them with two
\* roots, and one by a chain of two nodes
C28_Witness ==
    /\ second /\ rpc = "recvE2"
    /\ roots["start"] = 2
    /\ \A t \in TreeNames : Len(tree[t]) > roots[t]
    /\ \E t \in TreeNames :
          /\ Len(tree[t]) = roots[t] + 2
          /\ tree[t][Len(tree[t])].parent = Len(tree[t]) - 1

\* following parent pointers from node ix of tree t reaches a root within
\* fuel steps
RECURSIVE ReachesRoot(_, _, _)
ReachesRoot(t, ix, fuel) ==
    IF ix \notin DOMAIN tree[t] THEN FALSE
    ELSE IF tree[t][ix].parent = 0 THEN TRUE
    ELSE IF fuel = 0 THEN FALSE
    ELSE ReachesRoot(t, tree[t][ix].parent, fuel - 1)

\* C29: neither tree, nor a shortcut tree of the smoother, contains a
\* parent-pointer cycle: following parent pointers from any node reaches a
\* root in finitely many steps.
C29_NoCycle ==
    \A t \in AllTrees : \A ix \in DOMAIN tree[t] : ReachesRoot(t, ix, Len(tree[t]))

\* a node two steps away from its root
C29_Witness ==
    \E t \in TreeNames :
       /\ Len(tree[t]) >= roots[t] + 2
       /\ tree[t][Len(tree[t])].parent > roots[t]
       /\ ReachesRoot(t, Len(tree[t]), 2)
       /\ ~ReachesRoot(t, Len(tree[t]), 1)

\* the roles at the 0-based outer iteration iter
RolesByParity ==
    /\ (map1 = "start") <=> (iter % 2 = 0)
    /\ map2 = Other(map1)

\* tryExtend extends map1 and map2, so both trees, in every iteration
BothTreesExtended == \A k \in 1 .. 2 : Running(k) => ext[k].tree = MapOf(k)

\* the step that starts the extends starts one on map1 and one on map2
ExtendsStartStep ==
    (rpc = "recvNN2" /\ rpc' = "recvE1") =>
        /\ Running(1)' /\ ext'[1].tree = map1
        /\ Running(2)' /\ ext'[2].tree = map2

\* an outer iteration that does not return samples from the node reached in
\* its map1 and swaps the roles
SwapStep ==
    (rpc = "recvE2" /\ rpc' = "loopTop") =>
        /\ iter' = iter + 1
        /\ map1' = map2 /\ map2' = map1
        /\ reached'[1][1] = map1
        /\ reached'[2][1] = map2
        /\ target' \in SampleTargets(NodeQ(map1, reached'[1][2]), iter)

\* C30: the trees swap roles after every outer iteration that does not return:
\* at 0-based outer iteration i, map1 is startMap iff i is even and map2 is
\* the other tree, both trees are extended in every iteration, and the
\* sampling anchor map1reached alternates between the two trees.
C30_RolesAlternate ==
    /\ [](RolesByParity /\ BothTreesExtended)
    /\ [][SwapStep /\ ExtendsStartStep
             /\ (iter' # iter => rpc = "recvE2" \/ rpc = "start")]_vars

\* in the second outer iteration the goal tree is map1 and is being extended,
\* after the first iteration sampled from a node of the start tree
C30_Witness ==
    /\ iter = 1 /\ map1 = "goal" /\ map2 = "start"
    /\ Running(1) /\ ext[1].tree = "goal"
    /\ Running(2) /\ ext[2].tree = "start"
    /\ reached[1][1] = "start"

(***************************************************************************)
(* Claims about tryExtend, the goroutines and the random numbers.          *)
(***************************************************************************)
\* the step of tryExtend after both nearest neighbours are in: with the
\* context done it returns the context error and nothing else changes; else
\* the extends start from nearest neighbours computed before any cancellation
AfterNearestStep ==
    (rpc = "recvNN2" /\ rpc' # rpc) =>
        IF ctxDone
        THEN /\ rpc' = "done"
             /\ solutionChan' = <<Solution("ContextError", <<>>, TRUE)>>
             /\ ext' = ext
             /\ randCount' = randCount
             /\ tree' = tree
        ELSE /\ rpc' = "recvE1"
             /\ \A k \in 1 .. 2 :
                   /\ nearest'[k] \in nearestNeighbor(FALSE, target, MapOf(k))
                   /\ ext'[k].first = nearest'[k][2]

\* C31: a nearest-neighbour result computed under a fired cancellation signal
\* is never used: if the context is done once both results are in, tryExtend
\* returns the context error without launching constrainedExtend, without
\* drawing child seeds, and without modifying a tree or a Corner flag.
C31_CancelledNearestUnused ==
    /\ [][AfterNearestStep]_vars
    /\ [](\A k \in 1 .. 2 : Running(k) => (nearest[k] # NoNode /\ IsKey(nearest[k])))

\* the first tryExtend was cancelled while the searches ran: one search
\* returned no node, and the run ended with the context error, no seed drawn
\* and the trees as they were
C31_Witness ==
    /\ rpc = "done" /\ ctxDone /\ Sol.err = "ContextError"
    /\ nearest[1] = NoNode
    /\ randCount = 0
    /\ TreesUntouched
    /\ \A k \in 1 .. 2 : ext[k] = IdleExt

\* no goroutine of the runner is running or has a result waiting
NoGoroutineLeft ==
    \A k \in 1 .. 2 : nn[k] = "idle" /\ ext[k].pc = "idle" /\ mchan[k] = <<>>

\* no goroutine has sent on a closed channel
NoSendOnClosed == \A k \in 1 .. 2 : nn[k] # "panic" /\ ext[k].pc # "panic"

\* C32: when rrtBackgroundRunner returns, closing m1chan, m2chan and
\* solutionChan, no goroutine it spawned is still running or has a send
\* pending, on every return path; no send on a closed channel is reachable.
C32_NoGoroutineOutlivesRunner ==
    /\ (rpc = "done" \/ mclosed \/ solClosed) => NoGoroutineLeft
    /\ NoSendOnClosed
    /\ (mclosed \/ solClosed) => rpc = "done"
    /\ rpc = "done" => Len(solutionChan) + (IF ppc = "returned" THEN 1 ELSE 0) = 1

\* the runner has returned with a path after two rounds of four goroutines
C32_Witness ==
    /\ rpc = "done" /\ mclosed /\ solClosed
    /\ second /\ randCount = 4
    /\ Sol.err = "none"
    /\ NoGoroutineLeft

\* the draws of mp.randseed: two, by tryExtend, while no extend is running,
\* the first for the extend on map1 and the second for the one on map2
MasterDrawStep ==
    randCount' # randCount =>
        /\ rpc = "recvNN2"
        /\ \A k \in 1 .. 2 : ~Running(k) /\ nn[k] # "run"
        /\ randCount' = randCount + 2
        /\ \A k \in 1 .. 2 : Running(k)' /\ ext'[k].seedDraw = randCount + k

\* each running extend of tryExtend holds its own child PRNG
OwnChildSeed ==
    \A k \in 1 .. 2 :
        Running(k) =>
           /\ ext[k].rng = (IF k = 1 THEN "rseed1" ELSE "rseed2")
           /\ ext[k].seedDraw = randCount - 2 + k
           /\ \A m \in (1 .. 2) \ {k} : Running(m) => ext[m].rng # ext[k].rng

\* C33: mp.randseed is used only by the outer-loop thread and never while an
\* extend goroutine is running: both child PRNGs are drawn from it, in a
\* fixed order, before either constrainedExtend is launched, and each
\* concurrent extend uses only its own child PRNG.
C33_MasterSeedNotShared ==
    /\ [](OwnChildSeed)
    /\ [][MasterDrawStep /\ \A k \in 1 .. 2 : (Running(k) /\ Running(k)')
                                 => (ext'[k].rng = ext[k].rng
                                       /\ ext'[k].seedDraw = ext[k].seedDraw)]_vars

\* in the second round both extends run, seeded from the third and the
\* fourth draw
C33_Witness ==
    /\ second /\ randCount = 4
    /\ ext[1].pc = "near" /\ ext[1].rng = "rseed1" /\ ext[1].seedDraw = 3
    /\ ext[2].pc = "near" /\ ext[2].rng = "rseed2" /\ ext[2].seedDraw = 4

(***************************************************************************)
(* Claims about the attempts of smoothPath.                                *)
(***************************************************************************)
\* the node the pending shortcut of smoothPath reached
ShortcutReached == Head(mchan[3])

\* the pending shortcut ended away from inputSteps[i]
ShortcutFellShort ==
    configurationDistanceFunc(inputSteps[iIx].q, Q(ShortcutReached)) >= InputIdentDist

\* C34: a smoothPath attempt that traverses no corner between i and j, or
\* whose shortcut ends with d(path[i], reached) >= InputIdentDist, leaves the
\* path (same nodes, same order, same length) and every Corner flag of every
\* path node unchanged.
C34_FailedAttemptKeepsPath ==
    [][/\ spc = "loop" => inputSteps' = inputSteps
       /\ (spc = "recv" /\ spc' # spc /\ ShortcutFellShort) => inputSteps' = inputSteps]_vars

\* after the first attempt, whose shortcut grew a tree, the path still holds
\* its original nodes in their order
C34_Witness ==
    /\ spc = "loop" /\ numCornersToPass = 2 /\ smoothIter = 1
    /\ Len(tree["shortcut"]) >= 2
    /\ nextId = Len(inputSteps) + Len(tree["shortcut"])
    /\ \A ix \in DOMAIN inputSteps : inputSteps[ix].id = ix
    /\ \E ix \in DOMAIN inputSteps : inputSteps[ix].corner

\* smoothPath is about to make an attempt
AttemptDue ==
    /\ spc = "loop" /\ numCornersToPass > 0 /\ ~ctxDone
    /\ smoothIter < toIter \div 2 /\ Len(inputSteps) > 3

\* the indices of an attempt, from 1: i is at most the third from the end, j
\* is at least two after i and at most the last, and the corners hit lie
\* between them
IndicesInRange ==
    /\ AttemptDue =>
          \A i \in StartIndices(inputSteps) :
             LET sc == ScanCorners(inputSteps, numCornersToPass, i + 1, 0, {})
             IN /\ 1 <= i /\ i <= Len(inputSteps) - 2
                /\ i + 2 <= sc.j /\ sc.j <= Len(inputSteps)
                /\ sc.hit \subseteq (i + 2) .. sc.j
    /\ spc = "recv" => /\ 1 <= iIx /\ iIx <= Len(inputSteps) - 2
                       /\ iIx + 2 <= jIx /\ jIx <= Len(inputSteps)

\* C35: in every smoothPath attempt 0 <= i <= len-3 and i+2 <= j <= len-1 for
\* the current path length len (here with indices from 1), also after
\* splices; a path of 3 or fewer nodes is returned unchanged without any
\* attempt.
C35_IndicesInRange ==
    /\ [](IndicesInRange)
    /\ [][Len(inputSteps) <= 3 => (inputSteps' = inputSteps /\ spc' # "recv"
                                     /\ tree' = tree)]_vars

\* an attempt on a path that a splice has made longer
C35_Witness ==
    /\ spc = "recv"
    /\ \E ix \in DOMAIN inputSteps : inputSteps[ix].id > Len(inputSteps)
    /\ iIx = 1 /\ jIx = iIx + 2 /\ Len(inputSteps) > jIx

\* the step of smoothPath that splices the shortcut into the path
SpliceStep ==
    /\ spc = "recv" /\ spc' = "loop"
    /\ configurationDistanceFunc(inputSteps[iIx].q, Q(ShortcutReached)) < InputIdentDist

\* the node of identity id is on the path p
OnPath(id, p) == \E k \in DOMAIN p : p[k].id = id

\* C36: after a successful smoothPath splice, every corner that was counted
\* in the replaced span and is no longer on the path has Corner = false, and
\* the two endpoints of the new splice (the node now at index i and the node
\* path[j] that ends the spliced chain) have Corner = true.
C36_SpliceCorners ==
    [][SpliceStep =>
          LET last == iIx + Len(Chain("shortcut", ShortcutReached[2])) - 1
          IN /\ \A ix \in hitCorners :
                   ~OnPath(inputSteps[ix].id, inputSteps') =>
                       /\ \E n \in offPath' : n.id = inputSteps[ix].id
                       /\ \A n \in offPath' : n.id = inputSteps[ix].id => ~n.corner
             /\ inputSteps'[iIx].corner
             /\ inputSteps'[last].id = inputSteps[jIx].id
             /\ inputSteps'[last].corner]_vars

\* the first attempt spliced, and a corner it counted is off the path
C36_Witness ==
    /\ spc = "loop" /\ numCornersToPass = 2 /\ smoothIter = 1
    /\ \E n \in offPath : n.id \in hitCorners /\ ~n.corner
    /\ inputSteps[iIx].corner

(***************************************************************************)
(* getFrameSteps (lines 483-507).  A limit is a float64: finite, +Inf or   *)
(* -Inf.  percentTotalMovement and the steps are counted in hundredths.    *)
(***************************************************************************)
MaxFrames == 2
MaxDoF == 2

NegInf == [inf |-> 0 - 1, v |-> 0]
PosInf == [inf |-> 1, v |-> 0]
Fin(x) == [inf |-> 0, v |-> x]

\* the limits a DoF declares: Min is finite or -Inf, Max is finite or +Inf
LowerLimits == {NegInf, Fin(0 - 2), Fin(1)}
UpperLimits == {Fin(1), Fin(3), PosInf}
Limits == [Min : LowerLimits, Max : UpperLimits]

\* the values of percentTotalMovement, in hundredths
Percents == {1, 50}

SeqsUpTo(S, n) == UNION {[1 .. k -> S] : k \in 0 .. n}

FrameNames == <<"f1", "f2", "f3">>

\* the frame systems: up to MaxFrames frames of up to MaxDoF DoF each
FrameSystems ==
    {[k \in DOMAIN ds |-> [name |-> FrameNames[k], dof |-> ds[k]]] :
        ds \in SeqsUpTo(SeqsUpTo(Limits, MaxDoF), MaxFrames) \ {<<>>}}

\* lines 491-502: the step of one DoF
FrameStep(lim, pct) ==
    LET l == IF lim.Min = NegInf THEN 0 - 999 ELSE lim.Min.v
        u == IF lim.Max = PosInf THEN 999 ELSE lim.Max.v
        jRange == Abs(u - l)
    IN jRange * pct

\* lines 488-503: the steps of one frame
FramePos(f, pct) == [i \in DOMAIN f.dof |-> FrameStep(f.dof[i], pct)]

\* lines 485-507 as a function: the map from frame names to steps
getFrameSteps(frames, pct) ==
    [n \in {frames[k].name : k \in DOMAIN frames} |->
        FramePos(CHOOSE f \in {frames[k] : k \in DOMAIN frames} : f.name = n, pct)]

InitSteps ==
    /\ InitWith(CHOOSE w \in Worlds : TRUE, "free")
    /\ initMaps = "maps"
    /\ planOptsNil = FALSE
    /\ PlanIter = 0
    /\ Made
    /\ SmoothIdle
    /\ AppIdle
    /\ PTGIdle
    /\ gpc = "loop"
    /\ lfs \in FrameSystems
    /\ percentTotalMovement \in Percents
    /\ fIx = 0
    /\ frameQstep = <<>>

\* lines 487-505: one round of the loop over lfs.frames
GetFrameStepsFrame ==
    /\ gpc = "loop"
    /\ fIx < Len(lfs)
    /\ fIx' = fIx + 1
    /\ frameQstep' = getFrameSteps(SubSeq(lfs, 1, fIx + 1), percentTotalMovement)
    /\ UNCHANGED <<gpc, lfs, percentTotalMovement, ptgVars, plannerVarsOnly, appVars>>

\* line 506
GetFrameStepsReturn ==
    /\ gpc = "loop"
    /\ fIx = Len(lfs)
    /\ gpc' = "done"
    /\ UNCHANGED <<lfs, percentTotalMovement, fIx, frameQstep, ptgVars, plannerVarsOnly,
                   appVars>>

NextSteps ==
    \/ GetFrameStepsFrame
    \/ GetFrameStepsReturn

SpecSteps == InitSteps /\ [][NextSteps]_vars

\* the limits of a DoF with the infinite ones replaced
Lower(lim) == IF lim.Min.inf # 0 THEN 0 - 999 ELSE lim.Min.v
Upper(lim) == IF lim.Max.inf # 0 THEN 999 ELSE lim.Max.v

\* C37: getFrameSteps returns, for every DoF of every frame, a strictly
\* positive step: percentTotalMovement x |upper - lower| with a lower limit
\* of -infinity replaced by -999 and an upper limit of +infinity replaced by
\* 999, for every pair of limits a frame may declare (including equal
\* limits).
C37_StepsStrictlyPositive ==
    gpc = "done" =>
       \A k \in DOMAIN lfs : \A i \in DOMAIN lfs[k].dof :
          LET step == frameQstep[lfs[k].name][i]
          IN /\ step = percentTotalMovement *
                          Abs(Upper(lfs[k].dof[i]) - Lower(lfs[k].dof[i]))
             /\ step > 0

\* what the code does guarantee: the formula, and a step that is not negative
StepsNotNegative ==
    gpc = "done" =>
       \A k \in DOMAIN lfs : \A i \in DOMAIN lfs[k].dof :
          LET step == frameQstep[lfs[k].name][i]
          IN /\ step = percentTotalMovement *
                          Abs(Upper(lfs[k].dof[i]) - Lower(lfs[k].dof[i]))
             /\ step >= 0

(***************************************************************************)
(* Claims about the connection test of rrtBackgroundRunner.                *)
(***************************************************************************)
\* the runner receives the second node of a tryExtend and acts on it
ReachedStep == rpc = "recvE2" /\ rpc' # rpc

\* the distance between the two nodes the tryExtend just reached
ReachedDeltaNow == configurationDistanceFunc(Q(reached'[1]), Q(reached'[2]))

\* the step reports a path
ReportsPath ==
    /\ solutionChan' # solutionChan
    /\ solutionChan'[Len(solutionChan')].err = "none"

\* the step starts a second tryExtend toward the midpoint
StartsSecond ==
    /\ ~second /\ second' /\ rpc' = "recvNN1"
    /\ target' = InterpolateFS(Q(reached'[1]), Q(reached'[2]), 1, 2)

\* the step reports the failure of the interpolation, with no path
ReportsInterpolationFailure ==
    /\ solutionChan' # solutionChan
    /\ solutionChan'[Len(solutionChan')].err = "InterpolationFailure"
    /\ solutionChan'[Len(solutionChan')].steps = <<>>
    /\ rpc' = "done"

\* C38 as stated: rrtBackgroundRunner reports a solution only when the two
\* nodes reached by the most recent tryExtend are within InputIdentDist of
\* each other; it runs a second tryExtend toward their midpoint in an
\* iteration exactly when the first reachedDelta exceeds InputIdentDist, and
\* never reports a path for a pair with reachedDelta > InputIdentDist.
C38_SecondExactlyWhenFar ==
    [][ReachedStep =>
          /\ ReportsPath => ReachedDeltaNow <= InputIdentDist
          /\ ~second => (StartsSecond <=> ReachedDeltaNow > InputIdentDist)
          /\ second => rpc' # "recvNN1"]_vars

\* C38, amended: a path is reported only when the two nodes reached by the
\* most recent tryExtend are within InputIdentDist of each other; a second
\* tryExtend toward their midpoint is run only after a first one whose
\* reachedDelta exceeds InputIdentDist, and is then run unless the
\* interpolation of the midpoint fails, in which case that error is reported
\* with no path; there is no third tryExtend in an iteration.
C38_SecondOnlyWhenFar ==
    [][ReachedStep =>
          /\ ReportsPath => ReachedDeltaNow <= InputIdentDist
          /\ ~second =>
                /\ StartsSecond => ReachedDeltaNow > InputIdentDist
                /\ ReachedDeltaNow > InputIdentDist =>
                      (StartsSecond \/ ReportsInterpolationFailure)
          /\ second => rpc' # "recvNN1"]_vars

\* a path was reported after a second tryExtend brought the trees together
C38_Witness ==
    /\ rpc = "done" /\ second
    /\ solutionChan # <<>>
    /\ solutionChan[1].err = "none"
    /\ Len(solutionChan[1].steps) >= 2
    /\ configurationDistanceFunc(Q(reached[1]), Q(reached[2])) <= InputIdentDist

(***************************************************************************)
(* package tpspace: ptgDiffDriveSideS (src/motionplan/tpspace/ptgSideS.go). *)
(* alpha is a float64 given by its sign bit and its magnitude, so that     *)
(* -0 and +0 differ as they do for math.Copysign; the magnitudes, dist,    *)
(* maxMMPS, maxRPS and r are whole numbers and countersteer is a ratio, so *)
(* every comparison below is exact.                                        *)
(***************************************************************************)
MaxAlpha == 2
MaxDist == 8

\* line 10
defaultCountersteer == Ratio(3, 2)

\* maxMMPS and maxRPS, with maxRPS positive and dividing maxMMPS
PTGParams == {<<2, 1>>, <<2, 2>>, <<3, 1>>, <<4, 2>>}

Alphas == {Float(n, a) : n \in BOOLEAN, a \in 0 .. MaxAlpha}
Dists == (0 - 2) .. MaxDist

\* lines 23-34
NewSideSPTG(maxMMPS, maxRPS) ==
    [maxMMPS |-> maxMMPS, maxRPS |-> maxRPS, r |-> maxMMPS \div maxRPS,
     countersteer |-> Ratio(1, 1)]

\* lines 38-49
NewSideSOverturnPTG(maxMMPS, maxRPS) ==
    [maxMMPS |-> maxMMPS, maxRPS |-> maxRPS, r |-> maxMMPS \div maxRPS,
     countersteer |-> defaultCountersteer]

\* math.Copysign(1., x): the sign bit of x, also when x is zero
Copysign1(x) == IF x.neg THEN 0 - 1 ELSE 1

\* lines 54-70.  arcLength = |alpha| * 0.5 * r; with arc2 = 2 * arcLength,
\* dist < arcLength is 2 * dist < arc2, and dist < arcLength +
\* arcLength * countersteer is 2 * dist * den < arc2 * den + arc2 * num
PTGVelocities(p, alpha, dist) ==
    LET arc2 == alpha.abs * p.r
        flip == Copysign1(alpha)
        cs == p.countersteer
    IN IF 2 * dist < arc2
       THEN [v |-> p.maxMMPS, w |-> p.maxRPS * flip, err |-> "nil"]
       ELSE IF 2 * dist * cs.den < arc2 * cs.den + arc2 * cs.num
            THEN [v |-> p.maxMMPS, w |-> p.maxRPS * (0 - 1) * flip, err |-> "nil"]
            ELSE [v |-> p.maxMMPS, w |-> 0, err |-> "nil"]

InitPTG ==
    /\ InitWith(CHOOSE w \in Worlds : TRUE, "free")
    /\ initMaps = "maps"
    /\ planOptsNil = FALSE
    /\ PlanIter = 0
    /\ Made
    /\ SmoothIdle
    /\ AppIdle
    /\ StepsIdle
    /\ vpc = "new"
    /\ ptg = NoPTG
    /\ alphaIn = Float(FALSE, 0)
    /\ distIn = 0
    /\ velocities = <<>>

\* the caller constructs a side-S PTG
CallNewSideSPTG ==
    /\ vpc = "new"
    /\ \E pr \in PTGParams : ptg' = NewSideSPTG(pr[1], pr[2])
    /\ vpc' = "made"
    /\ UNCHANGED <<alphaIn, distIn, velocities, stepVars, plannerVarsOnly, appVars>>

\* the caller constructs a side-S PTG that overturns
CallNewSideSOverturnPTG ==
    /\ vpc = "new"
    /\ \E pr \in PTGParams : ptg' = NewSideSOverturnPTG(pr[1], pr[2])
    /\ vpc' = "made"
    /\ UNCHANGED <<alphaIn, distIn, velocities, stepVars, plannerVarsOnly, appVars>>

\* the caller asks for the velocities at (alpha, dist)
CallPTGVelocities ==
    /\ vpc = "made"
    /\ \E alpha \in Alphas, dist \in Dists :
          /\ alphaIn' = alpha
          /\ distIn' = dist
          /\ velocities' = <<PTGVelocities(ptg, alpha, dist)>>
    /\ UNCHANGED <<vpc, ptg, stepVars, plannerVarsOnly, appVars>>

NextPTG ==
    \/ CallNewSideSPTG
    \/ CallNewSideSOverturnPTG
    \/ CallPTGVelocities

SpecPTG == InitPTG /\ [][NextPTG]_vars

\* the number alpha stands for, and its sign: -1, 0 or 1
AlphaValue == IF alphaIn.neg THEN 0 - alphaIn.abs ELSE alphaIn.abs

\* C39: for ptgDiffDriveSideS.PTGVelocities(alpha, dist) with arcLength =
\* |alpha| * r / 2, the linear velocity is always maxMMPS and the angular
\* velocity is sign(alpha) * maxRPS for dist < arcLength, -sign(alpha) *
\* maxRPS for arcLength <= dist < arcLength * (1 + countersteer), and 0 for
\* larger dist, with no error ever returned.  (Both sides of each comparison
\* are multiplied by 2 and by the denominator of countersteer.)
C39_TurnCounterTurnStraight ==
    velocities # <<>> =>
       LET out == velocities[1]
           arc2 == Abs(AlphaValue) * ptg.r
           cs == ptg.countersteer
       IN /\ out.v = ptg.maxMMPS
          /\ out.err = "nil"
          /\ 2 * distIn < arc2 => out.w = Sign(AlphaValue) * ptg.maxRPS
          /\ (arc2 <= 2 * distIn /\ 2 * distIn * cs.den < arc2 * (cs.den + cs.num))
                => out.w = (0 - Sign(AlphaValue)) * ptg.maxRPS
          /\ 2 * distIn * cs.den >= arc2 * (cs.den + cs.num) /\ arc2 <= 2 * distIn
                => out.w = 0

\* the same statement with a dist that is not negative: it holds
TurnCounterTurnStraightForward ==
    (velocities # <<>> /\ distIn >= 0) =>
       LET out == velocities[1]
           arc2 == Abs(AlphaValue) * ptg.r
           cs == ptg.countersteer
       IN /\ out.v = ptg.maxMMPS
          /\ out.err = "nil"
          /\ 2 * distIn < arc2 => out.w = Sign(AlphaValue) * ptg.maxRPS
          /\ (arc2 <= 2 * distIn /\ 2 * distIn * cs.den < arc2 * (cs.den + cs.num))
                => out.w = (0 - Sign(AlphaValue)) * ptg.maxRPS
          /\ 2 * distIn * cs.den >= arc2 * (cs.den + cs.num) => out.w = 0
====
